---- MODULE Spec2Model ----
(***************************************************************************)
(* Model of the Unreal Engine PAK reader, src/unreal_pak_extractor.py.     *)
(*                                                                         *)
(* An archive is a sequence of bytes (0..255).  File positions are         *)
(* 0-based as in Python; sequence indices are 1-based, so byte k of the    *)
(* file is data[k+1].  Text is a sequence of code points.  Every decoded   *)
(* integer of the archives explored here is below 2^31.                    *)
(***************************************************************************)
EXTENDS Integers, Sequences, FiniteSets, TLC

VARIABLES
    archive,        \* content of the file at pak_file_path
    entries,        \* self.entries : filename -> UnrealPakEntry
    pak_version,    \* self.pak_version
    index_offset,   \* self.index_offset
    index_size,     \* self.index_size
    mount_point,    \* self.mount_point
    encrypted,      \* self.encrypted
    last_call,      \* the last method called, its argument and return value
    reads,          \* the file reads made by the last method, in order
    out_files,      \* output_dir : the files written and the directories made
    calls,          \* concurrent extract_file_data calls and their file handles
    manager         \* the PAKManager: original_pak, extractor, the repacked file

vars == <<archive, entries, pak_version, index_offset, index_size,
          mount_point, encrypted, last_call, reads, out_files, calls,
          manager>>

(***************************************************************************)
(* Program constants                                                       *)
(***************************************************************************)
PAK_MAGIC == 1517228769          \* 0x5A6F12E1
COMPRESS_None == 0
COMPRESS_ZLIB == 1
COMPRESS_GZIP == 2
COMPRESS_Custom == 4
ENCRYPTED_FLAG == 1
FOOTER_SIZE == 44
OLD_FOOTER_SIZE == 28
MAX_ENTRY_COUNT == 1000000
TIMESTAMP_VERSION == 8
HASH_SIZE == 20

(***************************************************************************)
(* Bounds of the exploration                                               *)
(***************************************************************************)
MaxEntries == 2      \* entry records written into one index
MaxPathLen == 4      \* characters of a raw path that is normalised
MaxMountLen == 2     \* characters of the mount point it is normalised against

(***************************************************************************)
(* Bytes and integers                                                      *)
(***************************************************************************)
Min(a, b) == IF a < b THEN a ELSE b

RECURSIVE LE(_)
\* struct.unpack('<I' / '<Q' / '<B', bs)[0] for a buffer of the right size
LE(bs) == IF bs = <<>> THEN 0 ELSE bs[1] + 256 * LE(Tail(bs))

\* struct.unpack('<i', bs)[0] : two's complement, 4 bytes
S32(bs) ==
    LE(SubSeq(bs, 1, 3)) + 16777216 * (IF bs[4] >= 128 THEN bs[4] - 256 ELSE bs[4])

RECURSIVE Pack(_, _)
\* struct.pack of v in n little-endian bytes (two's complement when v < 0)
Pack(v, n) == IF n = 0 THEN <<>> ELSE <<v % 256>> \o Pack(v \div 256, n - 1)

Repeat(b, n) == IF n <= 0 THEN <<>> ELSE SubSeq([i \in 1..n |-> b], 1, n)

(***************************************************************************)
(* Sequencing: Bind(v, F) is F applied to the result v of a step.          *)
(***************************************************************************)
Bind(v, F(_)) == F(v)

(***************************************************************************)
(* The file object: a cursor over the archive plus the record of the       *)
(* reads made through it.                                                  *)
(***************************************************************************)
Open == [pos |-> 0, reads |-> <<>>]

\* f.seek(p)
Seek(f, p) == [f EXCEPT !.pos = p]

\* f.read(n) raises ValueError for a size below -1
read_raises(n) == n < -1

\* the number of bytes f.read(n) returns at position pos: at most n, fewer
\* at the end of the file; for n = -1 all bytes up to the end of the file
ReadCount(data, pos, n) ==
    IF pos >= Len(data) THEN 0
    ELSE IF n = -1 THEN Len(data) - pos
    ELSE Min(n, Len(data) - pos)

\* f.read(n)
Read(data, f, n) ==
    Bind(ReadCount(data, f.pos, n), LAMBDA got :
        [bytes |-> SubSeq(data, f.pos + 1, f.pos + got),
         f     |-> [pos   |-> f.pos + got,
                    reads |-> Append(f.reads,
                                     [at |-> f.pos, req |-> n, got |-> got])]])

\* struct.unpack(fmt, f.read(size)): struct.error unless size bytes came back
ReadInt(data, f, size) ==
    Bind(Read(data, f, size), LAMBDA r :
        [exc |-> Len(r.bytes) # size,
         val |-> IF Len(r.bytes) # size THEN 0 ELSE LE(r.bytes),
         f   |-> r.f])

(***************************************************************************)
(* Text                                                                    *)
(***************************************************************************)
NUL == 0
SLASH == 47
BACKSLASH == 92

\* s.rstrip(chr(c)): every trailing c is removed; what is kept ends at the
\* last character that is not c
rstrip(s, c) ==
    SubSeq(s, 1, CHOOSE k \in 0..Len(s) :
                     /\ \A i \in (k + 1)..Len(s) : s[i] = c
                     /\ k = 0 \/ s[k] # c)

\* s.lstrip(chr(c)): every leading c is removed; what is kept starts at the
\* first character that is not c
lstrip(s, c) ==
    SubSeq(s, CHOOSE k \in 1..(Len(s) + 1) :
                  /\ \A i \in 1..(k - 1) : s[i] = c
                  /\ k = Len(s) + 1 \/ s[k] # c,
           Len(s))

\* s.replace(chr(a), chr(b))
replace(s, a, b) == [i \in 1..Len(s) |-> IF s[i] = a THEN b ELSE s[i]]

\* s.startswith(p)
startswith(s, p) == Len(s) >= Len(p) /\ SubSeq(s, 1, Len(p)) = p

\* bs.decode('ascii', errors='ignore'): bytes above 127 are dropped
decode_ascii(bs) == SelectSeq(bs, LAMBDA b : b < 128)

\* bs.decode('utf-16-le', errors='ignore') for code units outside the
\* surrogate range: one code point per byte pair, a trailing odd byte is
\* dropped
decode_utf16le(bs) ==
    IF Len(bs) < 2 THEN <<>>
    ELSE SubSeq([i \in 1..(Len(bs) \div 2) |->
                    bs[2 * i - 1] + 256 * bs[2 * i]],
                1, Len(bs) \div 2)

\* read_string, lines 91-99: the characters after a nonzero length prefix
read_chars(data, f, length) ==
    IF length < 0
    THEN Bind(Read(data, f, (-length) * 2), LAMBDA r :
             [exc |-> FALSE, val |-> rstrip(decode_utf16le(r.bytes), NUL),
              f |-> r.f])
    ELSE Bind(Read(data, f, length), LAMBDA r :
             [exc |-> FALSE, val |-> rstrip(decode_ascii(r.bytes), NUL),
              f |-> r.f])

\* UnrealPakExtractor.read_string
read_string(data, f) ==
    Bind(Read(data, f, 4), LAMBDA r :
        IF Len(r.bytes) # 4 THEN [exc |-> TRUE, val |-> <<>>, f |-> r.f]
        ELSE IF S32(r.bytes) = 0 THEN [exc |-> FALSE, val |-> <<>>, f |-> r.f]
        ELSE read_chars(data, r.f, S32(r.bytes)))

(***************************************************************************)
(* The extractor object                                                    *)
(***************************************************************************)
EmptyMap == [x \in {} |-> 0]

\* d[k] = v
Put(d, k, v) == [x \in (DOMAIN d) \cup {k} |-> IF x = k THEN v ELSE d[x]]

\* UnrealPakExtractor.__init__
NewExtractor ==
    [entries      |-> EmptyMap,
     pak_version  |-> 0,
     index_offset |-> 0,
     index_size   |-> 0,
     mount_point  |-> <<>>,
     encrypted    |-> FALSE]

\* footer_newer with the index size decoded one byte early
footer_newer_shifted(self, fd) ==
    [self EXCEPT !.pak_version  = LE(SubSeq(fd, 22, 25)),
                 !.index_offset = LE(SubSeq(fd, 26, 33)),
                 !.index_size   = LE(SubSeq(fd, 33, 40)),
                 !.encrypted    = (LE(SubSeq(fd, 17, 17)) # 0)]

\* parse_footer, lines 141-144: the fields of the 44-byte footer
footer_newer(self, fd) ==
    [self EXCEPT !.pak_version  = LE(SubSeq(fd, 22, 25)),
                 !.index_offset = LE(SubSeq(fd, 26, 33)),
                 !.index_size   = LE(SubSeq(fd, 34, 41)),
                 !.encrypted    = (LE(SubSeq(fd, 17, 17)) # 0)]

\* footer_older with the encrypted flag taken from the first footer byte,
\* as the 44-byte layout takes it from the byte before the magic
footer_older_flagged(self, od) ==
    [self EXCEPT !.pak_version  = LE(SubSeq(od, 5, 8)),
                 !.index_offset = LE(SubSeq(od, 9, 16)),
                 !.index_size   = LE(SubSeq(od, 17, 24)),
                 !.encrypted    = (od[1] # 0)]

\* parse_footer, lines 136-139: the fields of the 28-byte footer
footer_older(self, od) ==
    [self EXCEPT !.pak_version  = LE(SubSeq(od, 5, 8)),
                 !.index_offset = LE(SubSeq(od, 9, 16)),
                 !.index_size   = LE(SubSeq(od, 17, 24)),
                 !.encrypted    = FALSE]

\* struct.unpack('<I', bs)[0] != PAK_MAGIC, decided on the four bytes: a
\* value of 2^31 or more is none that TLC's integers hold
magic_differs(bs) == bs # Pack(PAK_MAGIC, 4)

\* parse_footer, line 112: the file is too small to hold a footer
footer_too_small(file_size) == file_size < FOOTER_SIZE

\* parse_footer, line 147: the index region the footer names is invalid
footer_invalid(self, file_size) ==
    self.index_offset >= file_size \/ self.index_size = 0

\* parse_footer, lines 146-151: validate the fields that were set
footer_validate(data, self, f) ==
    [ret |-> ~footer_invalid(self, Len(data)), self |-> self, f |-> f]

\* parse_footer, lines 127-139: the magic is not at the newer position
footer_fallback(data, self, f) ==
    Bind(Read(data, Seek(f, Len(data) - OLD_FOOTER_SIZE), OLD_FOOTER_SIZE),
         LAMBDA r :
            IF magic_differs(SubSeq(r.bytes, 1, 4))
            THEN [ret |-> FALSE, self |-> self, f |-> r.f]
            ELSE footer_validate(data, footer_older(self, r.bytes), r.f))

\* UnrealPakExtractor.parse_footer: the return value, the extractor after the
\* call and the file object with the reads made
parse_footer(data, self) ==
    IF footer_too_small(Len(data))
    THEN [ret |-> FALSE, self |-> self, f |-> Open]
    ELSE Bind(Read(data, Seek(Open, Len(data) - FOOTER_SIZE), FOOTER_SIZE),
              LAMBDA r :
                 IF magic_differs(SubSeq(r.bytes, 18, 21))
                 THEN footer_fallback(data, self, r.f)
                 ELSE footer_validate(data, footer_newer(self, r.bytes), r.f))

(***************************************************************************)
(* Index parsing                                                           *)
(***************************************************************************)
\* normalize_path with the leading slashes stripped before the separators
\* are converted
normalize_path_strip_first(filename, mount) ==
    replace(lstrip(IF mount # <<>> /\ startswith(filename, mount)
                   THEN SubSeq(filename, Len(mount) + 1, Len(filename))
                   ELSE filename,
                   SLASH),
            BACKSLASH, SLASH)

\* parse_index, lines 192-198: mount point prefix, separators, leading slash
normalize_path(filename, mount) ==
    lstrip(replace(IF mount # <<>> /\ startswith(filename, mount)
                   THEN SubSeq(filename, Len(mount) + 1, Len(filename))
                   ELSE filename,
                   BACKSLASH, SLASH),
           SLASH)

\* parse_index, line 225: the per-entry encrypted flag
entry_encrypted(compression_method) ==
    (compression_method \div ENCRYPTED_FLAG) % 2 # 0

\* count_suspicious with the ceiling itself rejected
count_suspicious_inclusive(entry_count) == entry_count >= MAX_ENTRY_COUNT

\* parse_index, line 179: the entry count fails the sanity check
count_suspicious(entry_count) == entry_count > MAX_ENTRY_COUNT

RECURSIVE read_fields(_, _, _, _)
\* consecutive struct.unpack(f.read(size)) calls for the sizes listed; the
\* first short read raises
read_fields(data, f, sizes, acc) ==
    IF sizes = <<>> THEN [exc |-> FALSE, val |-> acc, f |-> f]
    ELSE Bind(ReadInt(data, f, sizes[1]), LAMBDA r :
             IF r.exc THEN [exc |-> TRUE, val |-> acc, f |-> r.f]
             ELSE read_fields(data, r.f, Tail(sizes), Append(acc, r.val)))

RECURSIVE read_blocks(_, _, _, _)
\* parse_index, lines 219-222: block_count (start, end) pairs
read_blocks(data, f, block_count, acc) ==
    IF block_count = 0 THEN [exc |-> FALSE, val |-> acc, f |-> f]
    ELSE Bind(read_fields(data, f, <<8, 8>>, <<>>), LAMBDA r :
             IF r.exc THEN [exc |-> TRUE, val |-> acc, f |-> r.f]
             ELSE read_blocks(data, r.f, block_count - 1, Append(acc, r.val)))

\* an iteration of the entry loop that raised
entry_raise(f) == [skip |-> TRUE, exc |-> TRUE, entry |-> 0, f |-> f]

\* parse_index, lines 215-238: the block table, then the entry object
read_entry_blocks(data, f, e) ==
    IF e.compression_method = COMPRESS_None
    THEN [skip |-> FALSE, exc |-> FALSE, entry |-> e, f |-> f]
    ELSE Bind(ReadInt(data, f, 4), LAMBDA bc :
             IF bc.exc THEN entry_raise(bc.f)
             ELSE Bind(read_blocks(data, bc.f, bc.val, <<>>), LAMBDA bl :
                      IF bl.exc THEN entry_raise(bl.f)
                      ELSE [skip |-> FALSE, exc |-> FALSE,
                            entry |-> [e EXCEPT !.compression_blocks = bl.val],
                            f |-> bl.f]))

\* read_entry_stamp consuming the timestamp bytes and storing 0
read_entry_stamp_discarded(data, f, version) ==
    Bind(IF version >= TIMESTAMP_VERSION THEN ReadInt(data, f, 8)
         ELSE [exc |-> FALSE, val |-> 0, f |-> f],
         LAMBDA ts :
            IF ts.exc THEN [exc |-> TRUE, val |-> 0, hash |-> <<>>, f |-> ts.f]
            ELSE Bind(Read(data, ts.f, HASH_SIZE), LAMBDA hs :
                     [exc |-> FALSE, val |-> 0, hash |-> hs.bytes,
                      f |-> hs.f]))

\* parse_index, lines 206-213: the timestamp where the version has one, and
\* the 20-byte hash, which is taken as read whatever its length
read_entry_stamp(data, f, version) ==
    Bind(IF version >= TIMESTAMP_VERSION THEN ReadInt(data, f, 8)
         ELSE [exc |-> FALSE, val |-> 0, f |-> f],
         LAMBDA ts :
            IF ts.exc THEN [exc |-> TRUE, val |-> 0, hash |-> <<>>, f |-> ts.f]
            ELSE Bind(Read(data, ts.f, HASH_SIZE), LAMBDA hs :
                     [exc |-> FALSE, val |-> ts.val, hash |-> hs.bytes,
                      f |-> hs.f]))

\* parse_index, lines 200-238: the fields after the filename
read_entry_fields(data, f, self, name) ==
    Bind(read_fields(data, f, <<8, 8, 8, 4>>, <<>>), LAMBDA fx :
        IF fx.exc THEN entry_raise(fx.f)
        ELSE Bind(read_entry_stamp(data, fx.f, self.pak_version), LAMBDA st :
                 IF st.exc THEN entry_raise(st.f)
                 ELSE read_entry_blocks(data, st.f,
                          [filename           |-> name,
                           offset             |-> fx.val[1],
                           compressed_size    |-> fx.val[2],
                           uncompressed_size  |-> fx.val[3],
                           compression_method |-> fx.val[4],
                           timestamp          |-> st.val,
                           hash               |-> st.hash,
                           compression_blocks |-> <<>>,
                           encrypted          |-> entry_encrypted(fx.val[4])])))

\* parse_index, lines 186-240: the body of the loop over the entries.  skip
\* is TRUE when the iteration ended in `continue`: an empty filename, or an
\* exception while reading the entry (exc is TRUE).
read_entry(data, f, self) ==
    Bind(read_string(data, f), LAMBDA fn :
        IF fn.exc THEN entry_raise(fn.f)
        ELSE IF fn.val = <<>>
        THEN [skip |-> TRUE, exc |-> FALSE, entry |-> 0, f |-> fn.f]
        ELSE read_entry_fields(data, fn.f, self,
                               normalize_path(fn.val, self.mount_point)))

\* the entry loop ending the parse when an entry raises
entry_error_aborts_always == TRUE

\* parse_index, lines 242-244: what an iteration that raised does to the
\* loop: TRUE aborts the parse, FALSE continues with the next entry
entry_error_aborts == FALSE

RECURSIVE read_entries(_, _, _, _)
\* parse_index, lines 184-246: the loop over entry_count entries.  Once the
\* cursor is at the end of the file every remaining iteration raises in
\* read_string and continues without any effect, so the loop is cut there.
read_entries(data, f, self, remaining) ==
    IF remaining = 0 \/ (f.pos >= Len(data) /\ ~entry_error_aborts)
    THEN [ret |-> TRUE, self |-> self, f |-> f]
    ELSE Bind(read_entry(data, f, self), LAMBDA e :
             IF e.skip
             THEN IF e.exc /\ entry_error_aborts
                  THEN [ret |-> FALSE, self |-> self, f |-> e.f]
                  ELSE read_entries(data, e.f, self, remaining - 1)
             ELSE read_entries(data, e.f,
                      [self EXCEPT !.entries =
                          Put(self.entries, e.entry.filename, e.entry)],
                      remaining - 1))

\* index_encrypted with the check left out
index_encrypted_ignored(self) == FALSE

\* parse_index, lines 163-167: the index is encrypted, nothing is read
index_encrypted(self) == self.encrypted

\* parse_index, lines 176-246: the entry count and the entries
read_index_body(data, f, self) ==
    Bind(ReadInt(data, f, 4), LAMBDA ec :
        IF ec.exc \/ count_suspicious(ec.val)
        THEN [ret |-> FALSE, self |-> self, f |-> ec.f]
        ELSE read_entries(data, ec.f, self, ec.val))

\* UnrealPakExtractor.parse_index
parse_index(data, self) ==
    IF index_encrypted(self)
    THEN [ret |-> FALSE, self |-> self, f |-> Open]
    ELSE Bind(read_string(data, Seek(Open, self.index_offset)), LAMBDA mp :
             IF mp.exc THEN [ret |-> FALSE, self |-> self, f |-> mp.f]
             ELSE read_index_body(data, mp.f,
                                  [self EXCEPT !.mount_point = mp.val]))

\* parse, lines 458-463: parse_index after a footer that parsed
parse_rest(data, pf) ==
    Bind(parse_index(data, pf.self), LAMBDA pi :
        [ret |-> pi.ret, self |-> pi.self, reads |-> pf.f.reads \o pi.f.reads])

\* UnrealPakExtractor.parse: parse_footer, then parse_index on the same
\* object; each opens the file anew
parse(data, self) ==
    Bind(parse_footer(data, self), LAMBDA pf :
        IF ~pf.ret
        THEN [ret |-> FALSE, self |-> pf.self, reads |-> pf.f.reads]
        ELSE parse_rest(data, pf))

(***************************************************************************)
(* Extraction of one entry                                                 *)
(***************************************************************************)
\* The stand-in for a deflate stream: a header byte, a count n and a byte b
\* stand for n copies of b.  As with zlib, bytes after the end of the
\* stream are ignored, and a wrong header or a truncated stream is an error.
ZLIB_HEADER == 120
GZIP_HEADER == 31

\* zlib.decompress(data, wbits) for the framing that starts with header
inflate(data, header) ==
    IF Len(data) >= 3 /\ data[1] = header
    THEN [exc |-> FALSE, val |-> Repeat(data[3], data[2])]
    ELSE [exc |-> TRUE, val |-> <<>>]

\* decompress_data raising on a method that has no codec
decompress_data_strict(data, method) ==
    IF method = COMPRESS_ZLIB THEN inflate(data, ZLIB_HEADER)
    ELSE IF method = COMPRESS_GZIP THEN inflate(data, GZIP_HEADER)
    ELSE [exc |-> TRUE, val |-> <<>>]

\* UnrealPakExtractor.decompress_data
decompress_data(data, method) ==
    IF method = COMPRESS_ZLIB THEN inflate(data, ZLIB_HEADER)
    ELSE IF method = COMPRESS_GZIP THEN inflate(data, GZIP_HEADER)
    ELSE [exc |-> FALSE, val |-> data]

\* is_compressed decided by the method code alone
is_compressed_by_method(entry) == entry.compression_method # 0

\* UnrealPakEntry.is_compressed
is_compressed(entry) ==
    entry.compression_method # 0
    /\ entry.compressed_size # entry.uncompressed_size

None == [none |-> TRUE, data |-> <<>>]
Some(bytes) == [none |-> FALSE, data |-> bytes]

\* block_output leaving out a block that fails to decompress
block_output_dropping(bytes, method) ==
    Bind(decompress_data(bytes, method), LAMBDA d :
        IF d.exc THEN <<>> ELSE d.val)

\* extract_file_data, lines 299-307: the block decompressed, or the block
\* as read when decompress_data raises
block_output(bytes, method) ==
    Bind(decompress_data(bytes, method), LAMBDA d :
        IF d.exc THEN bytes ELSE d.val)

RECURSIVE extract_blocks(_, _, _, _, _)
\* extract_file_data, lines 293-309 and 318-320: the loop over the block
\* table; None when f.read raises
extract_blocks(data, f, entry, blocks, output_data) ==
    IF blocks = <<>> THEN [ret |-> Some(output_data), f |-> f]
    ELSE IF read_raises(blocks[1][2] - blocks[1][1])
    THEN [ret |-> None, f |-> Seek(f, entry.offset + blocks[1][1])]
    ELSE Bind(Read(data, Seek(f, entry.offset + blocks[1][1]),
                   blocks[1][2] - blocks[1][1]),
              LAMBDA r :
                 extract_blocks(data, r.f, entry, Tail(blocks),
                     output_data \o block_output(r.bytes,
                                                 entry.compression_method)))

\* extract_stored reading compressed_size bytes
extract_stored_compressed_size(data, f, entry) ==
    Bind(Read(data, f, entry.compressed_size), LAMBDA r :
        [ret |-> Some(r.bytes), f |-> r.f])

\* extract_file_data, lines 315-316: the entry is stored as it is
extract_stored(data, f, entry) ==
    Bind(Read(data, f, entry.uncompressed_size), LAMBDA r :
        [ret |-> Some(r.bytes), f |-> r.f])

\* extract_file_data, line 313 and 318-320: the whole span decompressed, or
\* None when decompress_data raises
whole_output(bytes, method) ==
    Bind(decompress_data(bytes, method), LAMBDA d :
        IF d.exc THEN None ELSE Some(d.val))

\* extract_file_data, lines 311-313: one compressed span, no block table
extract_whole(data, f, entry) ==
    Bind(Read(data, f, entry.compressed_size), LAMBDA r :
        [ret |-> whole_output(r.bytes, entry.compression_method), f |-> r.f])

\* extract_file_data, lines 281-283: the entry is encrypted, nothing is read
payload_encrypted(entry) == entry.encrypted

\* UnrealPakExtractor.extract_file_data
extract_file_data(data, entry) ==
    IF payload_encrypted(entry) THEN [ret |-> None, f |-> Open]
    ELSE IF is_compressed(entry)
    THEN IF entry.compression_blocks # <<>>
         THEN extract_blocks(data, Seek(Open, entry.offset), entry,
                             entry.compression_blocks, <<>>)
         ELSE extract_whole(data, Seek(Open, entry.offset), entry)
    ELSE extract_stored(data, Seek(Open, entry.offset), entry)

(***************************************************************************)
(* The output directory.  A location is the normalised sequence of path    *)
(* components relative to output_dir; a leading ".." component is a        *)
(* location outside output_dir.                                            *)
(***************************************************************************)
DOT == 46
CurDir == <<DOT>>
ParDir == <<DOT, DOT>>

EmptyDir == [files |-> EmptyMap, dirs |-> {}]

RECURSIVE split(_, _, _)
\* s.split(chr(sep)), cur being the component read so far
split(s, sep, cur) ==
    IF s = <<>> THEN <<cur>>
    ELSE IF s[1] = sep THEN <<cur>> \o split(Tail(s), sep, <<>>)
    ELSE split(Tail(s), sep, Append(cur, s[1]))

\* the location one more component c leads to from location at
resolve_step(at, c) ==
    IF c = <<>> \/ c = CurDir THEN at
    ELSE IF c = ParDir
    THEN IF at # <<>> /\ at[Len(at)] # ParDir
         THEN SubSeq(at, 1, Len(at) - 1)
         ELSE Append(at, ParDir)
    ELSE Append(at, c)

RECURSIVE resolve(_, _)
\* the location the components comps name, starting from location at
resolve(comps, at) ==
    IF comps = <<>> THEN at
    ELSE resolve(Tail(comps), resolve_step(at, comps[1]))

\* the location is a directory that exists whatever output_dir holds
is_outer_dir(loc) == loc = <<>> \/ loc[Len(loc)] = ParDir

\* the locations of the directory part of comps and of all its prefixes
dir_locations(comps) ==
    {resolve(SubSeq(comps, 1, k), <<>>) : k \in 0..(Len(comps) - 1)}

\* os.makedirs(os.path.dirname(os.path.join(output_dir, filename)),
\* exist_ok=True): every prefix of the directory part is created; raises
\* when one of them is a regular file
makedirs(fs, filename) ==
    Bind(dir_locations(split(filename, SLASH, <<>>)), LAMBDA locs :
        IF \E l \in locs : l \in DOMAIN fs.files
        THEN [exc |-> TRUE, fs |-> fs]
        ELSE [exc |-> FALSE, fs |-> [fs EXCEPT !.dirs = @ \cup locs]])

\* output_path names a directory
is_directory(fs, comps) ==
    \/ comps[Len(comps)] \in {<<>>, CurDir, ParDir}
    \/ is_outer_dir(resolve(comps, <<>>))
    \/ resolve(comps, <<>>) \in fs.dirs

\* open(output_path, 'wb') followed by f.write(data): raises when
\* output_path names a directory
write_file(fs, filename, bytes) ==
    Bind(split(filename, SLASH, <<>>), LAMBDA comps :
        IF is_directory(fs, comps) THEN [exc |-> TRUE, fs |-> fs]
        ELSE [exc |-> FALSE,
              fs |-> [fs EXCEPT !.files =
                         Put(fs.files, resolve(comps, <<>>), bytes)]])

\* extract_file, lines 389-399: the data is written, unless there is none
extract_write(fs, filename, ex) ==
    IF ex.ret.none
    THEN [ret |-> FALSE, raised |-> FALSE, fs |-> fs, reads |-> ex.f.reads]
    ELSE Bind(write_file(fs, filename, ex.ret.data), LAMBDA wr :
             [ret |-> ~wr.exc, raised |-> FALSE, fs |-> wr.fs,
              reads |-> ex.f.reads])

\* UnrealPakExtractor.extract_file: ret is the return value, raised is TRUE
\* when an exception leaves the method
extract_file(data, self, fs, filename) ==
    IF filename \notin DOMAIN self.entries
    THEN [ret |-> FALSE, raised |-> FALSE, fs |-> fs, reads |-> <<>>]
    ELSE Bind(makedirs(fs, filename), LAMBDA md :
             IF md.exc
             THEN [ret |-> FALSE, raised |-> TRUE, fs |-> md.fs,
                   reads |-> <<>>]
             ELSE extract_write(md.fs, filename,
                      extract_file_data(data, self.entries[filename])))

RECURSIVE str_less(_, _)
\* a < b for Python strings: by code point, a proper prefix comes first
str_less(a, b) ==
    IF b = <<>> THEN FALSE
    ELSE IF a = <<>> THEN TRUE
    ELSE IF a[1] # b[1] THEN a[1] < b[1]
    ELSE str_less(Tail(a), Tail(b))

\* min(keys)
least(keys) == CHOOSE k \in keys : \A o \in keys \ {k} : str_less(k, o)

RECURSIVE sorted(_)
\* sorted(keys)
sorted(keys) ==
    IF keys = {} THEN <<>>
    ELSE <<least(keys)>> \o sorted(keys \ {least(keys)})

\* the batch ending at the first entry that fails
batch_stops_on_failure == FALSE

\* extract_all, lines 419-432: after an entry that failed or raised the
\* loop goes on with the next entry
batch_continues == TRUE

\* extract_all, lines 420-432: the counters and the record of the attempt
\* after extract_file returned r for name
count_attempt(st, name, r) ==
    [fs            |-> r.fs,
     reads         |-> st.reads \o r.reads,
     attempts      |-> Append(st.attempts,
                         [filename |-> name, ok |-> r.ret /\ ~r.raised,
                          reads |-> r.reads]),
     success_count |-> st.success_count + (IF r.ret /\ ~r.raised THEN 1 ELSE 0),
     fail_count    |-> st.fail_count + (IF r.ret /\ ~r.raised THEN 0 ELSE 1)]

RECURSIVE extract_each(_, _, _, _)
\* extract_all, lines 418-432: the loop over the sorted entries; st holds
\* the counters, the output directory, the reads and the attempts so far
extract_each(data, self, names, st) ==
    IF names = <<>> THEN st
    ELSE Bind(extract_file(data, self, st.fs, names[1]), LAMBDA r :
             IF ~(r.ret /\ ~r.raised) /\ ~batch_continues
             THEN count_attempt(st, names[1], r)
             ELSE extract_each(data, self, Tail(names),
                               count_attempt(st, names[1], r)))

\* extract_all without the return for an empty mapping: the output
\* directory is created first
extract_all_unguarded(data, self, fs) ==
    extract_each(data, self, sorted(DOMAIN self.entries),
        [fs |-> [fs EXCEPT !.dirs = @ \cup {<<>>}], reads |-> <<>>,
         attempts |-> <<>>, success_count |-> 0, fail_count |-> 0])

\* UnrealPakExtractor.extract_all
extract_all(data, self, fs) ==
    IF DOMAIN self.entries = {}
    THEN [fs |-> fs, reads |-> <<>>, attempts |-> <<>>,
          success_count |-> 0, fail_count |-> 0]
    ELSE extract_each(data, self, sorted(DOMAIN self.entries),
             [fs |-> [fs EXCEPT !.dirs = @ \cup {<<>>}], reads |-> <<>>,
              attempts |-> <<>>, success_count |-> 0, fail_count |-> 0])

(***************************************************************************)
(* The archives explored.  They are laid out as the reader expects them:   *)
(* payload, index (mount point, entry count, entry records), footer.       *)
(***************************************************************************)
\* a length-prefixed single-byte string with its terminator, as
\* PAKManager._write_string writes it
PackString(s) ==
    IF s = <<>> THEN Pack(0, 4) ELSE Pack(Len(s) + 1, 4) \o s \o <<NUL>>

RECURSIVE PackBlocks(_)
PackBlocks(blocks) ==
    IF blocks = <<>> THEN <<>>
    ELSE Pack(blocks[1][1], 8) \o Pack(blocks[1][2], 8) \o PackBlocks(Tail(blocks))

\* one index record in the layout of parse_index for the given version
PackEntry(e, version) ==
    PackString(e.raw)
    \o Pack(e.offset, 8) \o Pack(e.compressed_size, 8)
    \o Pack(e.uncompressed_size, 8) \o Pack(e.compression_method, 4)
    \o (IF version >= TIMESTAMP_VERSION THEN Pack(e.timestamp, 8) ELSE <<>>)
    \o Repeat(e.hash, HASH_SIZE)
    \o (IF e.compression_method # COMPRESS_None
        THEN Pack(Len(e.compression_blocks), 4) \o PackBlocks(e.compression_blocks)
        ELSE <<>>)

RECURSIVE PackEntries(_, _)
PackEntries(es, version) ==
    IF es = <<>> THEN <<>>
    ELSE PackEntry(es[1], version) \o PackEntries(Tail(es), version)

PackIndex(mount, count, es, version) ==
    PackString(mount) \o Pack(count, 4) \o PackEntries(es, version)

\* the 44-byte footer: GUID, encrypted-index flag, magic, version, index
\* offset, index size, and three trailing bytes
NewerFooter(flag, magic, version, ioff, isize) ==
    Repeat(0, 16) \o <<flag>> \o Pack(magic, 4) \o Pack(version, 4)
    \o Pack(ioff, 8) \o Pack(isize, 8) \o Repeat(0, 3)

\* the 28-byte footer: magic, version, index offset, index size, and four
\* trailing bytes
OlderFooter(magic, version, ioff, isize) ==
    Pack(magic, 4) \o Pack(version, 4) \o Pack(ioff, 8) \o Pack(isize, 8)
    \o Repeat(0, 4)

\* the payload region: four stored bytes, a zlib stream (five times 65), a
\* gzip stream (twice 66) and a second zlib stream (twice 67)
Payload == <<10, 11, 12, 13>> \o <<ZLIB_HEADER, 5, 65>>
           \o <<GZIP_HEADER, 2, 66>> \o <<ZLIB_HEADER, 2, 67>>

\* the mount point "m/" and the archives' other parameters
MountDir == <<109, SLASH>>
MountPoints == {<<>>, MountDir}
Versions == {TIMESTAMP_VERSION - 1, TIMESTAMP_VERSION}
BAD_MAGIC == PAK_MAGIC + 1

Rec(raw, off, cs, us, method, blocks, hash) ==
    [raw |-> raw, offset |-> off, compressed_size |-> cs,
     uncompressed_size |-> us, compression_method |-> method,
     timestamp |-> 1000 + hash, hash |-> hash, compression_blocks |-> blocks]

\* the entry records an index is assembled from
Pool ==
    << Rec(<<97, DOT, 116>>, 0, 3, 4, COMPRESS_None, <<>>, 1),
       Rec(MountDir \o <<122>>, 4, 3, 5, COMPRESS_ZLIB, <<>>, 2),
       Rec(<<103>>, 7, 3, 2, COMPRESS_GZIP, <<>>, 3),
       Rec(MountDir \o <<100, BACKSLASH, 98>>, 4, 9, 8, COMPRESS_GZIP,
           << <<6, 9>>, <<3, 6>>, <<0, 3>> >>, 4),
       Rec(<<SLASH, 117>>, 0, 4, 4, 8, << <<0, 2>> >>, 5),
       Rec(<<99>>, 4, 3, 5, COMPRESS_Custom, <<>>, 6),
       Rec(<<116>>, 8, 400, 400, COMPRESS_None, <<>>, 7),
       Rec(MountDir \o MountDir \o <<101>>, 7, 3, 2, 3, <<>>, 8) >>

RECURSIVE Select(_, _)
\* the records of the pool whose numbers are in picks, in pool order
Select(picks, from) ==
    IF from > Len(Pool) THEN <<>>
    ELSE (IF from \in picks THEN <<Pool[from]>> ELSE <<>>)
         \o Select(picks, from + 1)

Picks == {p \in SUBSET (1..Len(Pool)) : Cardinality(p) <= MaxEntries}

\* a well-formed archive with either footer
Archive(layout, flag, version, mount, count, es) ==
    LET index == PackIndex(mount, count, es, version)
    IN  Payload \o index
        \o (IF layout = "newer"
            THEN NewerFooter(flag, PAK_MAGIC, version, Len(Payload), Len(index))
            ELSE OlderFooter(PAK_MAGIC, version, Len(Payload), Len(index)))

\* archives with any selection of entry records
IndexArchives ==
    { Archive(layout, 0, v, mp, Cardinality(p), Select(p, 1)) :
        layout \in {"newer", "older"}, v \in Versions, mp \in MountPoints,
        p \in Picks }

\* archives whose entry count field differs from the records that follow
CountArchives ==
    { Archive("newer", 0, v, MountDir, c, Select(p, 1)) :
        v \in Versions,
        c \in {0, 1, MAX_ENTRY_COUNT - 1, MAX_ENTRY_COUNT,
               MAX_ENTRY_COUNT + 1, 2147483647},
        p \in {q \in Picks : Cardinality(q) = MaxEntries} }

\* archives whose footer is damaged, encrypted, or names a bad index region
FooterArchives ==
    LET es    == Select({1, 3}, 1)
        index == PackIndex(MountDir, 2, es, 8)
        size44 == Len(Payload) + Len(index) + FOOTER_SIZE
        size28 == Len(Payload) + Len(index) + OLD_FOOTER_SIZE
    IN  { Payload \o index \o NewerFooter(flag, magic, 8, ioff, isize) :
            flag \in {0, 1, 128}, magic \in {PAK_MAGIC, BAD_MAGIC},
            ioff \in {Len(Payload), size44, size44 - 2, size44 - 7},
            isize \in {Len(index), 0} }
        \cup
        { Payload \o index \o OlderFooter(magic, 7, ioff, isize) :
            magic \in {PAK_MAGIC, BAD_MAGIC},
            ioff \in {Len(Payload), size28, size28 - 2, size28 - 7},
            isize \in {Len(index), 0} }

\* archives shorter than the 44-byte footer
ShortArchives ==
    LET index == PackIndex(<<>>, 0, <<>>, 7)
    IN  { pad \o index \o OlderFooter(PAK_MAGIC, v, Len(pad), Len(index)) :
            pad \in {<<>>, <<10>>, Repeat(10, 7)}, v \in Versions }
        \cup { OlderFooter(PAK_MAGIC, 7, 0, 8), <<>>, Repeat(0, 43) }

\* a record with an empty path, and a Gzip record whose only block
\* decompresses to fewer bytes than its uncompressed_size
EmptyPathRec == Rec(<<>>, 0, 0, 0, COMPRESS_None, <<>>, 10)
ShortBlockRec == Rec(<<107>>, 4, 3, 5, COMPRESS_GZIP, << <<3, 6>> >>, 9)

\* indexes with a record that is skipped before well-formed ones, and
\* indexes with the short block record
RecordSeqs ==
    { <<EmptyPathRec, Pool[1]>>,
      <<Pool[3], EmptyPathRec, Pool[6]>>,
      <<ShortBlockRec>>,
      <<ShortBlockRec, Pool[4]>> }

RecordArchives ==
    { Archive("newer", 0, v, mp, Len(es), es) :
        v \in Versions, mp \in MountPoints, es \in RecordSeqs }

\* an archive of version 0 whose second record lies over the footer: its
\* path ends with the first footer byte, its uncompressed_size is the magic,
\* its compression method the index offset, and the file ends where its
\* block count would begin
OverlapArchives ==
    LET index == PackIndex(<<>>, 2, <<Pool[3]>>, 0) \o Pack(2, 4) \o <<120>>
    IN  { Payload \o index
          \o NewerFooter(0, PAK_MAGIC, 0, Len(Payload), Len(index)) }

\* the mount point strings of StringArchives: length prefix and payload.
\* "m/" in single bytes with two terminators, with none, and as two
\* terminators alone; "m/" in two-byte code units with one terminator and
\* with two
MountStrings ==
    { Pack(4, 4) \o MountDir \o <<NUL, NUL>>,
      Pack(2, 4) \o MountDir,
      Pack(2, 4) \o <<NUL, NUL>>,
      Pack(-3, 4) \o <<MountDir[1], 0, MountDir[2], 0, NUL, NUL>>,
      Pack(-4, 4) \o <<MountDir[1], 0, MountDir[2], 0, NUL, NUL, NUL, NUL>> }

\* archives whose mount point is one of these strings
StringArchives ==
    { Payload \o ms \o Pack(2, 4) \o PackEntries(Select({1, 4}, 1), v)
      \o NewerFooter(0, PAK_MAGIC, v, Len(Payload), 1) :
        ms \in MountStrings, v \in Versions }

\* a record whose path is "../e", stored in 4 bytes
ParentPathRec ==
    Rec(ParDir \o <<SLASH, 101>>, 0, 4, 4, COMPRESS_None, <<>>, 11)

\* archives with this record, alone and after another one
ParentPathArchives ==
    { Archive("newer", 0, v, mp, Len(es), es) :
        v \in Versions, mp \in MountPoints,
        es \in {<<ParentPathRec>>, <<Pool[1], ParentPathRec>>} }

Archives ==
    IndexArchives \cup CountArchives \cup FooterArchives \cup ShortArchives
    \cup RecordArchives \cup OverlapArchives \cup StringArchives
    \cup ParentPathArchives

(***************************************************************************)
(* The state machine: one extractor on one archive file, and its callers   *)
(***************************************************************************)
NoCall == [op |-> "init", arg |-> <<>>, ret |-> FALSE, raised |-> FALSE,
           data |-> None, attempts |-> <<>>,
           success_count |-> 0, fail_count |-> 0]

\* the callers of extract_file_data that may run at the same time
Threads == {"t1", "t2"}

\* no extract_file_data call was made; pos[h] is the cursor of the file
\* handle h, one handle per caller
NoCalls ==
    [call |-> [t \in Threads |->
                  [pc |-> "idle", name |-> <<>>, blocks |-> <<>>,
                   output_data |-> <<>>, ret |-> None, raced |-> FALSE]],
     pos  |-> [h \in Threads |-> 0]]

\* PAKManager.__init__: no path in original_pak, no extractor; repacked is
\* the archive in the folder of repacked files.  unpacked records how the
\* most recent unpack_pak ended since start-up or since the last confirmed
\* clear_output: "none" when there was none, "ok" or "failed"
NewManager ==
    [original_pak |-> None, extractor |-> FALSE, repacked |-> None,
     unpacked |-> "none"]

self_now ==
    [entries      |-> entries,
     pak_version  |-> pak_version,
     index_offset |-> index_offset,
     index_size   |-> index_size,
     mount_point  |-> mount_point,
     encrypted    |-> encrypted]

SetSelf(s) ==
    /\ entries' = s.entries
    /\ pak_version' = s.pak_version
    /\ index_offset' = s.index_offset
    /\ index_size' = s.index_size
    /\ mount_point' = s.mount_point
    /\ encrypted' = s.encrypted

Init ==
    /\ archive \in Archives
    /\ entries = NewExtractor.entries
    /\ pak_version = NewExtractor.pak_version
    /\ index_offset = NewExtractor.index_offset
    /\ index_size = NewExtractor.index_size
    /\ mount_point = NewExtractor.mount_point
    /\ encrypted = NewExtractor.encrypted
    /\ last_call = NoCall
    /\ reads = <<>>
    /\ out_files = EmptyDir
    /\ calls = NoCalls
    /\ manager = NewManager

\* extractor.parse()
Parse ==
    LET r == parse(archive, self_now)
    IN  /\ SetSelf(r.self)
        /\ last_call' = [NoCall EXCEPT !.op = "parse", !.ret = r.ret]
        /\ reads' = r.reads
        /\ UNCHANGED <<calls, manager, archive, out_files>>

\* extractor.extract_file_data(entry) for an entry of the mapping
ExtractFileData ==
    \E name \in DOMAIN entries :
        LET r == extract_file_data(archive, entries[name])
        IN  /\ last_call' = [NoCall EXCEPT !.op = "extract_file_data",
                                           !.arg = name,
                                           !.ret = ~r.ret.none,
                                           !.data = r.ret]
            /\ reads' = r.f.reads
            /\ UNCHANGED <<calls, manager, archive, entries, pak_version, index_offset,
                           index_size, mount_point, encrypted, out_files>>

\* a name that is in no archive
Missing == <<97, 97, 97>>

\* extract_file removing the entry it extracted from the mapping
ExtractFile_consuming ==
    \E name \in (DOMAIN entries) \cup {Missing} :
        LET r == extract_file(archive, self_now, out_files, name)
        IN  /\ last_call' = [NoCall EXCEPT !.op = "extract_file",
                                           !.arg = name,
                                           !.ret = r.ret,
                                           !.raised = r.raised]
            /\ reads' = r.reads
            /\ out_files' = r.fs
            /\ entries' = IF r.ret
                          THEN [k \in (DOMAIN entries) \ {name} |-> entries[k]]
                          ELSE entries
            /\ UNCHANGED <<calls, manager, archive, pak_version, index_offset,
                           index_size, mount_point, encrypted>>

\* extractor.extract_file(filename, output_dir)
ExtractFile ==
    \E name \in (DOMAIN entries) \cup {Missing} :
        LET r == extract_file(archive, self_now, out_files, name)
        IN  /\ last_call' = [NoCall EXCEPT !.op = "extract_file",
                                           !.arg = name,
                                           !.ret = r.ret,
                                           !.raised = r.raised]
            /\ reads' = r.reads
            /\ out_files' = r.fs
            /\ UNCHANGED <<calls, manager, archive, entries, pak_version, index_offset,
                           index_size, mount_point, encrypted>>

\* extractor.extract_all(output_dir)
ExtractAll ==
    LET r == extract_all(archive, self_now, out_files)
    IN  /\ last_call' = [NoCall EXCEPT !.op = "extract_all",
                                       !.attempts = r.attempts,
                                       !.success_count = r.success_count,
                                       !.fail_count = r.fail_count]
        /\ reads' = r.reads
        /\ out_files' = r.fs
        /\ UNCHANGED <<calls, manager, archive, entries, pak_version, index_offset,
                       index_size, mount_point, encrypted>>

\* extractor.list_files(): prints, changes nothing
ListFiles ==
    /\ last_call' = [NoCall EXCEPT !.op = "list_files"]
    /\ reads' = <<>>
    /\ UNCHANGED <<calls, manager, archive, entries, pak_version, index_offset,
                   index_size, mount_point, encrypted, out_files>>

Next == Parse \/ ExtractFileData \/ ExtractFile \/ ExtractAll \/ ListFiles

Spec == Init /\ [][Next]_vars

(***************************************************************************)
(* Properties of the footer                                                *)
(***************************************************************************)
\* byte k (0-based) of the last n bytes of the archive
TailByte(n, k) == archive[Len(archive) - n + k + 1]

\* the little-endian number in bytes [from, to) of the last n bytes
TailInt(n, from, to) ==
    LET B(k) == TailByte(n, from + k)
        RECURSIVE Sum(_)
        Sum(k) == IF k >= to - from THEN 0 ELSE B(k) + 256 * Sum(k + 1)
    IN  Sum(0)

MagicBytes == <<225, 18, 111, 90>>       \* E1 12 6F 5A

\* the magic is at bytes [17..21) of the last 44 bytes
HasNewerMagic ==
    /\ Len(archive) >= 44
    /\ \A k \in 0..3 : TailByte(44, 17 + k) = MagicBytes[k + 1]

\* the magic is at bytes [0..4) of the last 28 bytes and not at the newer
\* position
HasOlderMagicOnly ==
    /\ Len(archive) >= 28
    /\ \A k \in 0..3 : TailByte(28, k) = MagicBytes[k + 1]
    /\ ~HasNewerMagic

\* the last method called was parse()
Parsed == last_call.op = "parse"

\* C1: after parse() on an archive of at least 44 bytes whose last 44 bytes
\* carry the magic at [17..21), version, index offset, index size and the
\* encrypted flag are the little-endian values at [21..25), [25..33),
\* [33..41) and byte 16 of those 44 bytes, and the only footer read is the
\* read of the last 44 bytes: the 28-byte layout is not read.
C1_NewerFooterDecoded ==
    (Parsed /\ HasNewerMagic) =>
        /\ pak_version = TailInt(44, 21, 25)
        /\ index_offset = TailInt(44, 25, 33)
        /\ index_size = TailInt(44, 33, 41)
        /\ encrypted = (TailByte(44, 16) # 0)
        /\ reads # <<>>
        /\ reads[1] = [at |-> Len(archive) - 44, req |-> 44, got |-> 44]
        /\ \A i \in 1..Len(reads) :
               ~(reads[i].at = Len(archive) - 28 /\ reads[i].req = 28)

\* C1 witness: a parsed archive with the newer footer, version 8, a
\* nonzero index size and the encrypted flag set
C1_Witness ==
    /\ Parsed /\ HasNewerMagic
    /\ pak_version = 8 /\ index_size > 0 /\ index_offset = Len(Payload)
    /\ encrypted

\* C2 as stated: for every archive with only the older footer shape,
\* archives of 28 to 43 bytes included, parse() recovers version, index
\* offset and index size from [4..8), [8..16), [16..24) of the last 28
\* bytes, with encrypted = FALSE.
C2_OlderFooterAnyLength ==
    (Parsed /\ HasOlderMagicOnly) =>
        /\ pak_version = TailInt(28, 4, 8)
        /\ index_offset = TailInt(28, 8, 16)
        /\ index_size = TailInt(28, 16, 24)
        /\ encrypted = FALSE

\* C2 amended: the same for archives of at least 44 bytes; a shorter
\* archive is rejected before any footer is read and the fields keep their
\* initial values.
C2_OlderFooterDecoded ==
    /\ (Parsed /\ HasOlderMagicOnly /\ Len(archive) >= 44) =>
        /\ pak_version = TailInt(28, 4, 8)
        /\ index_offset = TailInt(28, 8, 16)
        /\ index_size = TailInt(28, 16, 24)
        /\ encrypted = FALSE
    /\ (Parsed /\ Len(archive) < 44) =>
        /\ ~last_call.ret /\ reads = <<>>
        /\ self_now = NewExtractor

\* C2 witness: a parsed archive of at least 44 bytes with the older footer
\* only, whose fields were recovered and whose index was then read
C2_Witness ==
    /\ Parsed /\ HasOlderMagicOnly /\ Len(archive) >= 44
    /\ pak_version = 7 /\ index_offset = Len(Payload) /\ index_size > 0
    /\ last_call.ret /\ DOMAIN entries # {}

(***************************************************************************)
(* Properties of extract_file_data                                         *)
(***************************************************************************)
\* the last method called was extract_file_data, on entry Extracted
ExtractedData == last_call.op = "extract_file_data"
Extracted == entries[last_call.arg]

\* the bytes of the archive at positions [from, from + n), as far as the
\* archive has them
ArchiveBytes(from, n) ==
    [i \in 1..(IF from >= Len(archive) THEN 0
               ELSE IF n > Len(archive) - from THEN Len(archive) - from
               ELSE n) |-> archive[from + i]]

\* the entry is stored as it is: no codec, or equal sizes
StoredEntry(e) ==
    e.compression_method = 0 \/ e.compressed_size = e.uncompressed_size

\* the span of the entry is a stream of the codec with the given header
ValidStream(e, header) ==
    /\ e.compressed_size >= 3
    /\ e.offset + 3 <= Len(archive)
    /\ archive[e.offset + 1] = header

\* what the stream at the entry's offset stands for
StreamContent(e) == [i \in 1..archive[e.offset + 2] |-> archive[e.offset + 3]]

\* C3: extract_file_data on a parsed entry whose compression method is
\* exactly Zlib (1) or Gzip (2) and whose sizes differ reads the payload
\* (the entry is not rejected as encrypted) and, for a valid stream without
\* a block table, returns what the stream decompresses to.
C3_CodecDispatch ==
    (/\ ExtractedData
     /\ Extracted.compression_method \in {COMPRESS_ZLIB, COMPRESS_GZIP}
     /\ Extracted.compressed_size # Extracted.uncompressed_size) =>
        /\ reads # <<>>
        /\ (/\ Extracted.compression_blocks = <<>>
            /\ ValidStream(Extracted,
                   IF Extracted.compression_method = COMPRESS_ZLIB
                   THEN ZLIB_HEADER ELSE GZIP_HEADER)) =>
               last_call.data = Some(StreamContent(Extracted))

\* C4: extract_file_data on an unencrypted entry with no compression method,
\* or with equal sizes, returns the archive bytes at
\* [offset, offset + uncompressed_size) unchanged.
C4_StoredRoundTrip ==
    (ExtractedData /\ ~Extracted.encrypted /\ StoredEntry(Extracted)) =>
        last_call.data =
            Some(ArchiveBytes(Extracted.offset, Extracted.uncompressed_size))

\* C4 witness: an unencrypted entry without compression method whose sizes
\* differ was extracted and uncompressed_size bytes came back
C4_Witness ==
    /\ ExtractedData /\ ~Extracted.encrypted
    /\ Extracted.compression_method = 0
    /\ Extracted.compressed_size # Extracted.uncompressed_size
    /\ ~last_call.data.none
    /\ last_call.data.data = <<10, 11, 12, 13>>

\* C9: extract_file_data on an unencrypted stored entry returns a buffer of
\* exactly uncompressed_size bytes or None.
C9_NoTruncatedOutput ==
    (ExtractedData /\ ~Extracted.encrypted /\ StoredEntry(Extracted)) =>
        \/ last_call.data.none
        \/ Len(last_call.data.data) = Extracted.uncompressed_size

(***************************************************************************)
(* Properties of parse                                                     *)
(***************************************************************************)
\* the little-endian number in the n bytes at position pos of the archive
ArchiveInt(pos, n) ==
    LET RECURSIVE Sum(_)
        Sum(k) == IF k >= n THEN 0 ELSE archive[pos + k + 1] + 256 * Sum(k + 1)
    IN  Sum(0)

FooterRead == [at |-> Len(archive) - 44, req |-> 44, got |-> 44]

\* C5: when the encrypted-index flag of the footer is nonzero, parse()
\* fails, the only read made is that of the footer, the mount point stays
\* unset and the entry mapping stays empty.
C5_EncryptedIndex ==
    (Parsed /\ HasNewerMagic /\ TailByte(44, 16) # 0) =>
        /\ ~last_call.ret
        /\ reads = <<FooterRead>>
        /\ mount_point = <<>>
        /\ DOMAIN entries = {}

\* C5 witness: a parsed archive whose footer is valid but for the flag
C5_Witness ==
    /\ Parsed /\ HasNewerMagic /\ TailByte(44, 16) = 128
    /\ encrypted /\ index_offset = Len(Payload) /\ index_size > 0
    /\ ~last_call.ret

\* C6: whenever parse() returns failure the entry mapping is empty.
C6_AllOrNothing == (Parsed /\ ~last_call.ret) => DOMAIN entries = {}

\* C6 witness: a parse that failed after the mount point was read
C6_Witness ==
    /\ Parsed /\ ~last_call.ret
    /\ mount_point # <<>> /\ Len(reads) > 2
    /\ DOMAIN entries = {}

\* the footer was accepted and the index starts with a single-byte string
\* followed by four more bytes: the entry count was read
CountWasRead ==
    /\ Len(archive) >= 44
    /\ HasNewerMagic \/ HasOlderMagicOnly
    /\ index_offset < Len(archive) /\ index_size > 0 /\ ~encrypted
    /\ index_offset + 4 <= Len(archive)
    /\ archive[index_offset + 4] < 128
    /\ index_offset + 4 + ArchiveInt(index_offset, 4) + 4 <= Len(archive)

\* the entry count field
CountField ==
    ArchiveInt(index_offset + 4 + ArchiveInt(index_offset, 4), 4)

\* the position after the entry count field, where the first record begins
FirstRecordAt == index_offset + 4 + ArchiveInt(index_offset, 4) + 4

\* C7: an entry count above 1,000,000 makes parse() fail with no entry; a
\* count of 1,000,000 or less is accepted, and the loop over the entry
\* records is entered: the first record is read.
C7_EntryCountCeiling ==
    (Parsed /\ CountWasRead) =>
        /\ CountField > 1000000 =>
              /\ ~last_call.ret /\ DOMAIN entries = {}
              /\ \A i \in 1..Len(reads) : reads[i].at # FirstRecordAt
        /\ CountField <= 1000000 =>
              /\ last_call.ret
              /\ CountField >= 1 =>
                    \E i \in 1..Len(reads) : reads[i].at = FirstRecordAt

\* C7 witness: a count of exactly 1,000,000 was accepted and entries read
C7_Witness ==
    /\ Parsed /\ CountWasRead /\ CountField = 1000000
    /\ last_call.ret /\ DOMAIN entries # {}

(***************************************************************************)
(* Properties of extract_all                                               *)
(***************************************************************************)
ExtractedAll == last_call.op = "extract_all"

\* a comes before b in code point order
Before(a, b) ==
    \E k \in 0..Len(a) :
        /\ k <= Len(b)
        /\ \A i \in 1..k : a[i] = b[i]
        /\ \/ (k = Len(a) /\ k < Len(b))
           \/ (k < Len(a) /\ k < Len(b) /\ a[k + 1] < b[k + 1])

\* C10: extract_all attempts every entry once, in sorted order, whatever
\* failed before; an encrypted entry fails with no read made, every other
\* entry has its payload read, and success_count + fail_count is the number
\* of entries.
C10_BatchNeverAborts ==
    ExtractedAll =>
        LET at == last_call.attempts
        IN  /\ Len(at) = Cardinality(DOMAIN entries)
            /\ \A i \in 1..Len(at) : at[i].filename \in DOMAIN entries
            /\ \A i, j \in 1..Len(at) :
                   i < j => Before(at[i].filename, at[j].filename)
            /\ \A i \in 1..Len(at) :
                   IF entries[at[i].filename].encrypted
                   THEN ~at[i].ok /\ at[i].reads = <<>>
                   ELSE at[i].reads # <<>>
            /\ last_call.success_count =
                   Cardinality({i \in 1..Len(at) : at[i].ok})
            /\ last_call.success_count + last_call.fail_count =
                   Cardinality(DOMAIN entries)

\* C10 witness: the first entry of a batch failed as encrypted and a later
\* one was extracted
C10_Witness ==
    /\ ExtractedAll
    /\ Len(last_call.attempts) >= 2
    /\ entries[last_call.attempts[1].filename].encrypted
    /\ ~last_call.attempts[1].ok
    /\ last_call.attempts[Len(last_call.attempts)].ok
    /\ last_call.success_count >= 1 /\ last_call.fail_count >= 1

(***************************************************************************)
(* Path normalisation on its own: the archive holds one length-prefixed    *)
(* raw path, which is read and normalised against a mount point, and the   *)
(* result is normalised again.                                             *)
(***************************************************************************)
PathChars == {SLASH, BACKSLASH, MountDir[1]}

Strings(n) == UNION {[1..k -> PathChars] : k \in 0..n}

\* the raw path the archive holds
RawPath == SubSeq(archive, 5, Len(archive) - 1)

InitNorm ==
    /\ archive \in {PackString(raw) : raw \in Strings(MaxPathLen) \ {<<>>}}
    /\ mount_point \in Strings(MaxMountLen)
    /\ entries = EmptyMap
    /\ pak_version = 0
    /\ index_offset = 0
    /\ index_size = 0
    /\ encrypted = FALSE
    /\ last_call = NoCall
    /\ reads = <<>>
    /\ out_files = EmptyDir
    /\ calls = NoCalls
    /\ manager = NewManager

\* parse_index, lines 187-198, on the path the archive holds
Normalize ==
    /\ last_call.op = "init"
    /\ last_call' =
          [NoCall EXCEPT !.op = "normalize",
                         !.arg = read_string(archive, Open).val,
                         !.data = Some(normalize_path(
                                      read_string(archive, Open).val,
                                      mount_point))]
    /\ UNCHANGED <<calls, manager, archive, entries, pak_version, index_offset, index_size,
                   mount_point, encrypted, reads, out_files>>

\* the same lines on a path that is the result of a normalisation
NormalizeAgain ==
    /\ last_call.op = "normalize"
    /\ last_call' =
          [NoCall EXCEPT !.op = "renormalize",
                         !.arg = last_call.data.data,
                         !.data = Some(normalize_path(last_call.data.data,
                                                      mount_point))]
    /\ UNCHANGED <<calls, manager, archive, entries, pak_version, index_offset, index_size,
                   mount_point, encrypted, reads, out_files>>

NextNorm == Normalize \/ NormalizeAgain

SpecNorm == InitNorm /\ [][NextNorm]_vars

\* p is a prefix of s
HasPrefix(s, p) == Len(p) <= Len(s) /\ \A i \in 1..Len(p) : s[i] = p[i]

\* s without its first n characters
Drop(s, n) == [i \in 1..(Len(s) - n) |-> s[n + i]]

\* the number of leading separators of s
Leading(s) ==
    CHOOSE k \in 0..Len(s) :
        /\ \A i \in 1..k : s[i] \in {SLASH, BACKSLASH}
        /\ k < Len(s) => s[k + 1] \notin {SLASH, BACKSLASH}

\* s with its leading separators dropped and every backslash made a slash
Clean(s) ==
    [i \in 1..(Len(s) - Leading(s)) |->
        IF s[Leading(s) + i] = BACKSLASH THEN SLASH ELSE s[Leading(s) + i]]

\* one normalisation removes one leading instance of the mount point, no
\* more, converts the backslashes and drops the leading slashes
OneInstanceRemoved ==
    last_call.op = "normalize" =>
        last_call.data.data =
            IF mount_point # <<>> /\ HasPrefix(RawPath, mount_point)
            THEN Clean(Drop(RawPath, Len(mount_point)))
            ELSE Clean(RawPath)

\* C8 as stated: normalising an already normalised path yields the same
\* path, and one normalisation removes one leading instance of the mount
\* point.
C8_Idempotent ==
    /\ last_call.op = "renormalize" => last_call.data.data = last_call.arg
    /\ OneInstanceRemoved

\* C8 amended: normalising an already normalised path yields the same path
\* unless that path itself begins with the mount point, and one
\* normalisation removes one leading instance of the mount point.
C8_IdempotentOffMount ==
    /\ (/\ last_call.op = "renormalize"
        /\ ~(mount_point # <<>> /\ HasPrefix(last_call.arg, mount_point))) =>
           last_call.data.data = last_call.arg
    /\ OneInstanceRemoved

\* C8 witness: a raw path under the mount point, with a backslash, was
\* normalised twice and the second normalisation changed nothing
C8_Witness ==
    /\ last_call.op = "renormalize"
    /\ mount_point = MountDir
    /\ HasPrefix(RawPath, mount_point)
    /\ \E i \in 1..Len(RawPath) : RawPath[i] = BACKSLASH
    /\ last_call.arg # <<>>
    /\ last_call.data.data = last_call.arg

(***************************************************************************)
(* Properties of block tables and codecs                                   *)
(***************************************************************************)
\* the entry takes the compressed path of extract_file_data
CompressedEntry(e) ==
    e.compression_method # 0 /\ e.compressed_size # e.uncompressed_size

\* C11: for a compressed entry with a non-empty block table, the bytes
\* extract_file_data returns have length uncompressed_size.
C11_BlockOutputLength ==
    (/\ ExtractedData
     /\ CompressedEntry(Extracted)
     /\ Extracted.compression_blocks # <<>>
     /\ ~last_call.data.none) =>
        Len(last_call.data.data) = Extracted.uncompressed_size

\* the method code is none the reader knows
UnknownMethod(e) ==
    e.compression_method \notin
        {COMPRESS_None, COMPRESS_ZLIB, COMPRESS_GZIP, COMPRESS_Custom}

\* C12: an entry with an unknown nonzero method code and equal sizes is
\* extracted as stored: one read of uncompressed_size bytes at its offset,
\* returned as read, whatever its block table holds.
C12_SizeEqualityFirst ==
    (/\ ExtractedData
     /\ ~Extracted.encrypted
     /\ UnknownMethod(Extracted)
     /\ Extracted.compressed_size = Extracted.uncompressed_size) =>
        /\ reads = << [at  |-> Extracted.offset,
                       req |-> Extracted.uncompressed_size,
                       got |-> Len(ArchiveBytes(Extracted.offset,
                                       Extracted.uncompressed_size))] >>
        /\ last_call.data =
               Some(ArchiveBytes(Extracted.offset, Extracted.uncompressed_size))

\* C12 witness: an entry with method code 8, equal sizes and a block table
\* was extracted and its four stored bytes came back
C12_Witness ==
    /\ ExtractedData
    /\ Extracted.compression_method = 8
    /\ Extracted.compressed_size = Extracted.uncompressed_size
    /\ Extracted.compression_blocks # <<>>
    /\ last_call.data = Some(<<10, 11, 12, 13>>)

(***************************************************************************)
(* Properties of the entry records                                         *)
(***************************************************************************)
\* the records a well-formed index may hold, by the byte their hash repeats
RecordOf(id) ==
    IF id <= Len(Pool) THEN Pool[id]
    ELSE IF id = ShortBlockRec.hash THEN ShortBlockRec ELSE EmptyPathRec

RecordIds == 1..EmptyPathRec.hash

\* the entry has the 20 hash bytes of a record, all of them
HashOfRecord(e) ==
    /\ Len(e.hash) = HASH_SIZE
    /\ e.hash[1] \in RecordIds
    /\ \A i \in 1..HASH_SIZE : e.hash[i] = e.hash[1]

\* C13: for a version below 8 no timestamp bytes are consumed, the hash
\* follows the compression method and the timestamp is 0; from version 8 on
\* the 8 bytes between the two are the timestamp.  Every entry read from a
\* well-formed index has the hash, the method and the block table of its
\* record, and the record's timestamp or 0 by the version.
C13_TimestampByVersion ==
    (Parsed /\ last_call.ret /\ archive \in IndexArchives) =>
        /\ Cardinality(DOMAIN entries) = CountField
        /\ \A name \in DOMAIN entries :
              /\ HashOfRecord(entries[name])
              /\ entries[name].compression_method =
                     RecordOf(entries[name].hash[1]).compression_method
              /\ entries[name].compression_blocks =
                     RecordOf(entries[name].hash[1]).compression_blocks
              /\ entries[name].timestamp =
                     IF pak_version >= 8
                     THEN RecordOf(entries[name].hash[1]).timestamp
                     ELSE 0

\* C13 witness: an archive of version 7 was parsed into entries with
\* timestamp 0
C13_Witness ==
    /\ Parsed /\ last_call.ret /\ archive \in IndexArchives
    /\ pak_version = 7
    /\ Cardinality(DOMAIN entries) = 2
    /\ \A name \in DOMAIN entries :
          HashOfRecord(entries[name]) /\ entries[name].timestamp = 0

(***************************************************************************)
(* Properties of sequences of calls                                        *)
(***************************************************************************)
\* a step of the extractor that fills or changes the entry mapping is a
\* parse() that returns success
MappingFromParse ==
    DOMAIN entries' # DOMAIN entries =>
        (last_call'.op = "parse" /\ last_call'.ret)

\* with an empty mapping extract_file fails and extract_all attempts
\* nothing, and neither touches the output directory
NothingFromEmptyMapping ==
    (DOMAIN entries = {} /\ last_call'.op \in {"extract_file", "extract_all"}) =>
        /\ ~last_call'.ret
        /\ last_call'.attempts = <<>>
        /\ last_call'.success_count = 0
        /\ reads' = <<>>
        /\ out_files' = out_files

\* C14: the mapping is empty when the extractor is constructed and stays
\* empty until a parse() returns success, and while it is empty
\* extract_file returns failure and extract_all writes nothing: no
\* extraction produces data before the index has been parsed.
C14_ParseBeforeExtract ==
    /\ DOMAIN entries = {}
    /\ [][MappingFromParse /\ NothingFromEmptyMapping]_vars

\* C14 witness: parse() failed on the entry count, then extract_all was
\* called and wrote nothing
C14_Witness ==
    /\ ExtractedAll
    /\ CountWasRead /\ CountField > 1000000
    /\ DOMAIN entries = {}
    /\ last_call.attempts = <<>>
    /\ out_files = EmptyDir

\* the step is a call of one of the methods that extract or list
ExtractionStep ==
    last_call'.op \in
        {"extract_file_data", "extract_file", "extract_all", "list_files"}

\* C15: extract_file_data, extract_file, extract_all and list_files, in any
\* order and any number of times, leave the entry mapping, the version, the
\* mount point, the encrypted flag and the index offset and size unchanged.
C15_EntriesImmutable ==
    [][ExtractionStep =>
          /\ entries' = entries
          /\ pak_version' = pak_version
          /\ mount_point' = mount_point
          /\ encrypted' = encrypted
          /\ index_offset' = index_offset
          /\ index_size' = index_size]_vars

\* C15 witness: after a parse and extractions that wrote files, list_files
\* was called on a mapping that still has its two entries
C15_Witness ==
    /\ last_call.op = "list_files"
    /\ Cardinality(DOMAIN entries) = 2
    /\ Cardinality(DOMAIN out_files.files) = 2
    /\ mount_point = MountDir
    /\ pak_version = 8
    /\ index_size > 0

(***************************************************************************)
(* Properties of failures while the index is read                          *)
(***************************************************************************)
\* the footer was accepted and the mount point is a single-byte string
MountWasRead ==
    /\ Len(archive) >= 44
    /\ HasNewerMagic \/ HasOlderMagicOnly
    /\ index_offset < Len(archive) /\ index_size > 0 /\ ~encrypted
    /\ index_offset + 4 <= Len(archive)
    /\ archive[index_offset + 4] < 128

\* the archive ends inside the entry count field
EntryCountShort ==
    /\ MountWasRead
    /\ index_offset + 4 + ArchiveInt(index_offset, 4) + 4 > Len(archive)

\* read i of the parse is that of the hash of a record with a compression
\* method other than None: the block count is read next
HashBeforeBlockCount(i) ==
    /\ reads[i].req = HASH_SIZE
    /\ LET method_at == reads[i].at - 4 - (IF pak_version >= 8 THEN 8 ELSE 0)
       IN  method_at >= 0 /\ ArchiveInt(method_at, 4) # 0

\* the archive ends inside the block count field of a record
BlockCountShort ==
    \E i \in 2..Len(reads) :
        /\ reads[i].req = 4 /\ reads[i].got < 4
        /\ HashBeforeBlockCount(i - 1)

\* C16: when the entry count or the block count of a record cannot be read
\* because the archive ends inside it, parse() fails; the record is not
\* skipped with the parse going on to return success.
C16_CountFailureAborts ==
    (Parsed /\ (EntryCountShort \/ BlockCountShort)) => ~last_call.ret

\* the path a record's raw path is emitted under
EmittedPath(raw, mount) ==
    IF mount # <<>> /\ HasPrefix(raw, mount)
    THEN Clean(Drop(raw, Len(mount)))
    ELSE Clean(raw)

\* the record rec was emitted with its own path and fields
Emitted(rec, mount) ==
    /\ EmittedPath(rec.raw, mount) \in DOMAIN entries
    /\ LET e == entries[EmittedPath(rec.raw, mount)]
       IN  /\ e.offset = rec.offset
           /\ e.compressed_size = rec.compressed_size
           /\ e.uncompressed_size = rec.uncompressed_size
           /\ e.compression_method = rec.compression_method
           /\ e.compression_blocks = rec.compression_blocks
           /\ HashOfRecord(e) /\ e.hash[1] = rec.hash

\* C17: after a record is skipped for its empty path the next iteration
\* starts at the following record: every well-formed record of the index,
\* also one that follows a skipped record, is emitted with its own path,
\* offset, sizes, method, hash and block table.
C17_SkipKeepsAlignment ==
    (Parsed /\ archive \in RecordArchives) =>
        \A v \in Versions, mp \in MountPoints, es \in RecordSeqs :
            archive = Archive("newer", 0, v, mp, Len(es), es) =>
                /\ last_call.ret
                /\ \A i \in 1..Len(es) :
                       es[i].raw # <<>> => Emitted(es[i], mp)

\* the bytes of block b of entry e as they lie in the archive
BlockBytes(e, b) == ArchiveBytes(e.offset + b[1], b[2] - b[1])

\* the bytes are a stream of the codec of method
Decompresses(bytes, method) ==
    /\ Len(bytes) >= 3
    /\ \/ method = COMPRESS_ZLIB /\ bytes[1] = ZLIB_HEADER
       \/ method = COMPRESS_GZIP /\ bytes[1] = GZIP_HEADER

\* what the block contributes to the output: its content when it is a
\* stream of the entry's codec, the block itself when it is not or when the
\* method has no codec
BlockContribution(e, b) ==
    IF Decompresses(BlockBytes(e, b), e.compression_method)
    THEN [i \in 1..BlockBytes(e, b)[2] |-> BlockBytes(e, b)[3]]
    ELSE BlockBytes(e, b)

RECURSIVE InTableOrder(_, _)
\* the contributions of the blocks, concatenated in table order
InTableOrder(e, blocks) ==
    IF blocks = <<>> THEN <<>>
    ELSE BlockContribution(e, blocks[1]) \o InTableOrder(e, Tail(blocks))

\* C18: for a compressed entry with a non-empty block table the output of
\* extract_file_data is the concatenation, in table order, of the
\* decompressed block for each block that decompresses and of the raw block
\* for each block that does not; the extraction never fails.
C18_PerBlockRecovery ==
    (/\ ExtractedData
     /\ ~Extracted.encrypted
     /\ CompressedEntry(Extracted)
     /\ Extracted.compression_blocks # <<>>) =>
        last_call.data =
            Some(InTableOrder(Extracted, Extracted.compression_blocks))

\* C18 witness: a Gzip entry of three blocks, the first and the last of
\* which are no Gzip streams, was extracted: raw block, two bytes 66 from
\* the middle block, raw block
C18_Witness ==
    /\ ExtractedData
    /\ Extracted.compression_method = COMPRESS_GZIP
    /\ Len(Extracted.compression_blocks) = 3
    /\ last_call.data =
           Some(<<ZLIB_HEADER, 2, 67>> \o <<66, 66>> \o <<ZLIB_HEADER, 5, 65>>)

\* the entry was extracted, is not encrypted, its method is neither Zlib
\* nor Gzip, its sizes differ and it has no block table
NoCodecEntry ==
    /\ ExtractedData
    /\ ~Extracted.encrypted
    /\ Extracted.compression_method \notin {COMPRESS_ZLIB, COMPRESS_GZIP}
    /\ Extracted.compressed_size # Extracted.uncompressed_size
    /\ Extracted.compression_blocks = <<>>

\* the compressed_size bytes at the entry's offset, as read
CompressedSpan ==
    Some(ArchiveBytes(Extracted.offset, Extracted.compressed_size))

\* C19 as stated: for an unencrypted entry whose method is neither Zlib nor
\* Gzip, whose sizes differ and whose block table is empty,
\* extract_file_data returns the compressed_size bytes at the offset.
C19_NoCodecPassthrough == NoCodecEntry => last_call.data = CompressedSpan

\* C19 amended: the same for a method that is not None either; with method
\* None the uncompressed_size bytes at the offset are returned.
C19_UnknownCodecPassthrough ==
    NoCodecEntry =>
        last_call.data =
            IF Extracted.compression_method # COMPRESS_None
            THEN CompressedSpan
            ELSE Some(ArchiveBytes(Extracted.offset,
                                   Extracted.uncompressed_size))

\* C19 witness: an entry with method Custom, 3 compressed and 5
\* uncompressed bytes was extracted and its 3 stored bytes came back
C19_Witness ==
    /\ NoCodecEntry
    /\ Extracted.compression_method = COMPRESS_Custom
    /\ Extracted.compressed_size = 3
    /\ last_call.ret
    /\ last_call.data = Some(<<ZLIB_HEADER, 5, 65>>)

(***************************************************************************)
(* Properties of the string codec                                          *)
(***************************************************************************)
\* parse has read the mount point string: the footer was accepted, the
\* index is not encrypted and a nonzero length prefix stands at index_offset
MountStringRead ==
    /\ last_call.op = "parse"
    /\ Len(archive) >= 44
    /\ HasNewerMagic \/ HasOlderMagicOnly
    /\ index_offset < Len(archive) /\ index_size > 0 /\ ~encrypted
    /\ index_offset + 4 <= Len(archive)
    /\ S32(ArchiveBytes(index_offset, 4)) # 0

\* the length prefix of the mount point string
MountLength == S32(ArchiveBytes(index_offset, 4))

\* the number of payload bytes the prefix announces
MountPayloadSize ==
    IF MountLength < 0 THEN 2 * (-MountLength) ELSE MountLength

\* the payload of the mount point string, decoded, nothing stripped
MountPayload ==
    IF MountLength < 0
    THEN decode_utf16le(ArchiveBytes(index_offset + 4, MountPayloadSize))
    ELSE decode_ascii(ArchiveBytes(index_offset + 4, MountPayloadSize))

\* s without one trailing null character, when it has one
StripOne(s) ==
    IF s # <<>> /\ s[Len(s)] = NUL THEN SubSeq(s, 1, Len(s) - 1) ELSE s

\* the payload was read with one request of the announced size
MountPayloadRequested ==
    \E i \in 1..Len(reads) :
        reads[i].at = index_offset + 4 /\ reads[i].req = MountPayloadSize

\* C20: read_string reads n bytes for a positive length n and 2*|n| bytes
\* for a negative one, and strips exactly one trailing null character, so
\* that a payload ending in two still decodes to a string ending in one.
C20_StripsOneTerminator ==
    MountStringRead =>
        /\ MountPayloadRequested
        /\ mount_point = StripOne(MountPayload)

(***************************************************************************)
(* Concurrent extraction: several callers run extract_file_data on the     *)
(* entries of one parsed archive, and their seeks and reads interleave.    *)
(* A seek and a read are each one step.                                    *)
(***************************************************************************)
\* every call going through one file handle
handle_shared(t) == "t1"

\* extract_file_data, line 286: the call opens the archive itself, so the
\* handle it seeks and reads on is its own
handle(t) == t

\* archives with every selection of MaxEntries records among a stored one,
\* a Zlib one, a Gzip span, a Gzip block table and one of method Custom
ParArchives ==
    { Archive("newer", 0, TIMESTAMP_VERSION, MountDir, Cardinality(p),
              Select(p, 1)) :
        p \in {q \in SUBSET {1, 2, 3, 4, 6} : Cardinality(q) = MaxEntries} }

InitPar ==
    /\ archive \in ParArchives
    /\ entries = NewExtractor.entries
    /\ pak_version = NewExtractor.pak_version
    /\ index_offset = NewExtractor.index_offset
    /\ index_size = NewExtractor.index_size
    /\ mount_point = NewExtractor.mount_point
    /\ encrypted = NewExtractor.encrypted
    /\ last_call = NoCall
    /\ reads = <<>>
    /\ out_files = EmptyDir
    /\ calls = NoCalls
    /\ manager = NewManager

\* the entry caller t is extracting
EntryOf(t) == entries[calls.call[t].name]

\* the file object of caller t: the cursor of its handle
FileOf(t) == [pos |-> calls.pos[handle(t)], reads |-> <<>>]

\* a step of caller t that moves the cursor of its handle to pos and leaves
\* the call as c.  raced records, for every other caller that has made a
\* seek and not yet the read that follows it, that a step came in between.
HandleStep(t, c, pos) ==
    /\ calls' =
          [call |-> [u \in Threads |->
                        IF u = t THEN c
                        ELSE [calls.call[u] EXCEPT !.raced =
                                 @ \/ calls.call[u].pc
                                          \in {"read", "block_read"}]],
           pos  |-> [calls.pos EXCEPT ![handle(t)] = pos]]
    /\ UNCHANGED <<archive, entries, pak_version, index_offset, index_size,
                   mount_point, encrypted, last_call, reads, out_files,
                   manager>>

\* extractor.parse(), once, before any call
ParseOnce == last_call.op = "init" /\ Parse

\* extract_file_data, lines 281-286: the encrypted check, then open
CallExtract(t) ==
    /\ last_call.op = "parse"
    /\ calls.call[t].pc = "idle"
    /\ \E name \in DOMAIN entries :
          IF payload_encrypted(entries[name])
          THEN HandleStep(t, [calls.call[t] EXCEPT !.pc = "done",
                                                   !.name = name,
                                                   !.ret = None],
                          calls.pos[handle(t)])
          ELSE HandleStep(t, [calls.call[t] EXCEPT !.pc = "seek",
                                                   !.name = name],
                          0)

\* extract_file_data, lines 287-293: f.seek(entry.offset) and the branch
SeekEntry(t) ==
    /\ calls.call[t].pc = "seek"
    /\ HandleStep(t,
          IF is_compressed(EntryOf(t))
             /\ EntryOf(t).compression_blocks # <<>>
          THEN [calls.call[t] EXCEPT
                   !.pc = "block_seek",
                   !.blocks = EntryOf(t).compression_blocks]
          ELSE [calls.call[t] EXCEPT !.pc = "read"],
          EntryOf(t).offset)

\* extract_file_data, lines 311-316: the read of the whole span or of the
\* stored bytes, and the return
ReadSpan(t) ==
    /\ calls.call[t].pc = "read"
    /\ LET r == IF is_compressed(EntryOf(t))
                THEN extract_whole(archive, FileOf(t), EntryOf(t))
                ELSE extract_stored(archive, FileOf(t), EntryOf(t))
       IN  HandleStep(t, [calls.call[t] EXCEPT !.pc = "done",
                                               !.ret = r.ret],
                      r.f.pos)

\* extract_file_data, line 296: f.seek(entry.offset + block_start)
SeekBlock(t) ==
    /\ calls.call[t].pc = "block_seek"
    /\ HandleStep(t, [calls.call[t] EXCEPT !.pc = "block_read"],
                  EntryOf(t).offset + calls.call[t].blocks[1][1])

\* extract_file_data, lines 297-309 and 318-320: the read of the block, its
\* output, and the return after the last block or when f.read raises
ReadBlock(t) ==
    /\ calls.call[t].pc = "block_read"
    /\ LET b   == calls.call[t].blocks[1]
           r   == Read(archive, FileOf(t), b[2] - b[1])
           out == calls.call[t].output_data
                  \o block_output(r.bytes, EntryOf(t).compression_method)
       IN  HandleStep(t,
              IF read_raises(b[2] - b[1])
              THEN [calls.call[t] EXCEPT !.pc = "done", !.blocks = <<>>,
                                         !.ret = None]
              ELSE IF Tail(calls.call[t].blocks) = <<>>
              THEN [calls.call[t] EXCEPT !.pc = "done", !.blocks = <<>>,
                                         !.output_data = out,
                                         !.ret = Some(out)]
              ELSE [calls.call[t] EXCEPT !.pc = "block_seek",
                                         !.blocks = Tail(@),
                                         !.output_data = out],
              r.f.pos)

NextPar ==
    \/ ParseOnce
    \/ \E t \in Threads : CallExtract(t)
    \/ \E t \in Threads : SeekEntry(t)
    \/ \E t \in Threads : ReadSpan(t)
    \/ \E t \in Threads : SeekBlock(t)
    \/ \E t \in Threads : ReadBlock(t)

SpecPar == InitPar /\ [][NextPar]_vars

\* C21: under every interleaving of the seeks and reads of concurrent
\* extract_file_data calls on one parsed archive, a call that has returned
\* has returned what it returns when it runs alone.
C21_RaceFree ==
    \A t \in Threads :
        calls.call[t].pc = "done" =>
            calls.call[t].ret = extract_file_data(archive, EntryOf(t)).ret

\* C21 witness: two calls on different entries have returned data, one of
\* them from a block table, and each had a step of the other between one of
\* its seeks and the read that followed
C21_Witness ==
    \E t, u \in Threads :
        /\ t # u
        /\ calls.call[t].pc = "done" /\ calls.call[u].pc = "done"
        /\ calls.call[t].name # calls.call[u].name
        /\ calls.call[t].raced /\ calls.call[u].raced
        /\ EntryOf(t).compression_blocks # <<>>
        /\ ~calls.call[t].ret.none /\ ~calls.call[u].ret.none
        /\ calls.call[t].ret = extract_file_data(archive, EntryOf(t)).ret

(***************************************************************************)
(* The generic PAK reader, src/pak_extractor.py: a header of magic,        *)
(* version and file count, then one record per file: name length, name,    *)
(* offset, size.                                                           *)
(***************************************************************************)
\* the limits of the sanity checks of parse_generic_pak
MAX_FILE_COUNT == 100000
MAX_NAME_LEN == 512

\* bs.decode('utf-8', errors='ignore') for the bytes of the archives
\* explored, none of which begins a multi-byte sequence: bytes below 128
\* are kept, the others are dropped
decode_utf8(bs) == SelectSeq(bs, LAMBDA b : b < 128)

RECURSIVE generic_entries(_, _, _, _)
\* parse_generic_pak, lines 120-130: the loop over file_count records.  exc
\* is TRUE when struct.unpack raised on a short read
generic_entries(data, f, remaining, acc) ==
    IF remaining = 0 THEN [exc |-> FALSE, entries |-> acc]
    ELSE Bind(ReadInt(data, f, 4), LAMBDA name_len :
             IF name_len.exc THEN [exc |-> TRUE, entries |-> acc]
             ELSE IF name_len.val > MAX_NAME_LEN \/ name_len.val <= 0
             THEN generic_entries(data, name_len.f, remaining - 1, acc)
             ELSE Bind(Read(data, name_len.f, name_len.val), LAMBDA nm :
                  Bind(read_fields(data, nm.f, <<4, 4>>, <<>>), LAMBDA fx :
                      IF fx.exc THEN [exc |-> TRUE, entries |-> acc]
                      ELSE generic_entries(data, fx.f, remaining - 1,
                               Append(acc,
                                      [filename |-> decode_utf8(nm.bytes),
                                       offset   |-> fx.val[1],
                                       size     |-> fx.val[2]])))))

\* parse_generic_pak, line 116: the file count fails the sanity check
file_count_invalid(file_count) ==
    file_count > MAX_FILE_COUNT \/ file_count <= 0

\* PAKExtractor.parse_generic_pak: the list returned, and whether the
\* except clause of line 132 ran
parse_generic_pak(data) ==
    Bind(Read(data, Open, 4), LAMBDA magic :
    Bind(read_fields(data, magic.f, <<4, 4>>, <<>>), LAMBDA hd :
        IF hd.exc THEN [exc |-> TRUE, entries |-> <<>>]
        ELSE IF file_count_invalid(hd.val[2])
        THEN [exc |-> TRUE, entries |-> <<>>]
        ELSE generic_entries(data, hd.f, hd.val[2], <<>>)))

\* a record of the generic format
GenericRec(name, offset, size) ==
    Pack(Len(name), 4) \o name \o Pack(offset, 4) \o Pack(size, 4)

\* two records, "a" and a name with a byte that is no UTF-8
GenericRecs ==
    GenericRec(<<97>>, 40, 3) \o GenericRec(<<98, 255, 99>>, 43, 2)

\* a generic archive: magic "GPAK", version 1, the file count, the records
GenericFile(file_count, recs) ==
    <<71, 80, 65, 75>> \o Pack(1, 4) \o Pack(file_count, 4) \o recs

\* the two records under a true, a low, a high and an invalid file count,
\* and behind a record whose name length is 0 or above the limit; each of
\* these files whole and cut short at every length
GenericArchives ==
    LET whole == { GenericFile(c, GenericRecs) :
                     c \in {0, 1, 2, 3, MAX_FILE_COUNT, MAX_FILE_COUNT + 1} }
                 \cup
                 { GenericFile(3, Pack(n, 4) \o GenericRecs) :
                     n \in {0, MAX_NAME_LEN + 1} }
    IN  UNION { { SubSeq(a, 1, n) : n \in 0..Len(a) } : a \in whole }

InitGeneric ==
    /\ archive \in GenericArchives
    /\ entries = EmptyMap
    /\ pak_version = 0
    /\ index_offset = 0
    /\ index_size = 0
    /\ mount_point = <<>>
    /\ encrypted = FALSE
    /\ last_call = NoCall
    /\ reads = <<>>
    /\ out_files = EmptyDir
    /\ calls = NoCalls
    /\ manager = NewManager

\* PAKExtractor.parse_generic_pak() on the archive
ParseGenericPak ==
    LET r == parse_generic_pak(archive)
    IN  /\ last_call' = [NoCall EXCEPT !.op = "parse_generic_pak",
                                       !.raised = r.exc,
                                       !.data = Some(r.entries)]
        /\ UNCHANGED <<calls, manager, archive, entries, pak_version,
                       index_offset, index_size, mount_point, encrypted,
                       reads, out_files>>

NextGeneric == ParseGenericPak

SpecGeneric == InitGeneric /\ [][NextGeneric]_vars

\* C22: when parse_generic_pak fails with an exception at any point, it
\* returns the empty list, never the entries read before the failure.
C22_EmptyOnFailure ==
    (last_call.op = "parse_generic_pak" /\ last_call.raised) =>
        last_call.data = Some(<<>>)


(***************************************************************************)
(* Extraction and the output directory                                     *)
(***************************************************************************)
\* the location is output_dir itself or below it
InsideOutputDir(loc) == loc = <<>> \/ loc[1] # ParDir

\* the last call wrote the parent path entry
WroteParentPath ==
    /\ last_call.op \in {"extract_file", "extract_all"}
    /\ archive \in ParentPathArchives
    /\ <<ParDir, <<101>>>> \in DOMAIN out_files.files

\* C23: every file that extract_file or extract_all has written lies inside
\* output_dir, whatever the entry paths of the archive are.
C23_StaysInsideOutputDir ==
    \A loc \in DOMAIN out_files.files : InsideOutputDir(loc)


(***************************************************************************)
(* The reads of parse_index and the index region                           *)
(***************************************************************************)
\* the reads parse_footer makes before it accepts a footer: that of the
\* last 44 bytes, and that of the last 28 bytes when the magic is not in
\* the first
FooterReadCount == IF HasNewerMagic THEN 1 ELSE 2

\* the numbers, in the read log of parse(), of the reads of parse_index
IndexReads == (FooterReadCount + 1)..Len(reads)

\* the bytes read i returned lie in [index_offset, index_offset + index_size)
InIndexRegion(i) ==
    reads[i].got > 0 =>
        /\ reads[i].at >= index_offset
        /\ reads[i].at + reads[i].got <= index_offset + index_size

\* C24: every byte parse_index reads lies within the index region
\* [index_offset, index_offset + index_size) that the footer declares; no
\* byte after it, such as a footer byte, is read as index data.
C24_IndexReadsBounded ==
    Parsed => \A i \in IndexReads : InIndexRegion(i)


(***************************************************************************)
(* Block tables with any pair of bounds                                    *)
(***************************************************************************)
\* the block pairs (start, end) over the three streams of the payload that
\* begin at offset 4: end after start, equal to it, one below it and
\* further below it
BlockPairs == { <<s, e>> : s \in {0, 3, 6}, e \in {0, 3, 5, 6} }

\* tables of one such pair, alone and before the pair of the last stream
BlockTables ==
    { << p >> : p \in BlockPairs } \cup { << p, <<6, 9>> >> : p \in BlockPairs }

\* a compressed record of 9 bytes at offset 4 with the block table blocks
BlockRec(method, blocks) ==
    Rec(<<114>>, 4, 9, 8, method, blocks, 12)

\* archives with one such record
BlockArchives ==
    { Archive("newer", 0, v, <<>>, 1, <<BlockRec(m, bt)>>) :
        v \in Versions, m \in {COMPRESS_GZIP, COMPRESS_Custom},
        bt \in BlockTables }

InitBlocks ==
    /\ archive \in BlockArchives
    /\ entries = NewExtractor.entries
    /\ pak_version = NewExtractor.pak_version
    /\ index_offset = NewExtractor.index_offset
    /\ index_size = NewExtractor.index_size
    /\ mount_point = NewExtractor.mount_point
    /\ encrypted = NewExtractor.encrypted
    /\ last_call = NoCall
    /\ reads = <<>>
    /\ out_files = EmptyDir
    /\ calls = NoCalls
    /\ manager = NewManager

NextBlocks == Parse \/ ExtractFileData

SpecBlocks == InitBlocks /\ [][NextBlocks]_vars

\* max(0, n)
AtLeastZero(n) == IF n < 0 THEN 0 ELSE n

\* read i of the extraction is that of block i of entry e: it starts at the
\* block's start and returns no more bytes than the block has
BlockReadBounded(e, i) ==
    /\ reads[i].at = e.offset + e.compression_blocks[i][1]
    /\ reads[i].got <=
           AtLeastZero(e.compression_blocks[i][2] - e.compression_blocks[i][1])

\* C27: for a compressed entry with a block table, the reads of
\* extract_file_data are those of the pairs (start, end) in table order,
\* each at offset + start and of at most max(0, end - start) bytes, and in
\* the output it returns a pair with end < start contributes no byte.
C27_BlockReadsBounded ==
    (/\ ExtractedData
     /\ ~Extracted.encrypted
     /\ CompressedEntry(Extracted)
     /\ Extracted.compression_blocks # <<>>) =>
        /\ Len(reads) <= Len(Extracted.compression_blocks)
        /\ \A i \in 1..Len(reads) : BlockReadBounded(Extracted, i)
        /\ ~last_call.data.none =>
               last_call.data.data =
                   InTableOrder(Extracted, Extracted.compression_blocks)


(***************************************************************************)
(* PAKManager: the writer of archives                                      *)
(***************************************************************************)
HEADER_SIZE == 1024
DEFAULT_VERSION == 8
DefaultMount == ParDir \o <<SLASH>> \o ParDir \o <<SLASH>> \o ParDir \o <<SLASH>>

RECURSIVE encode_utf8(_)
\* s.encode('utf-8') for a string of code points below 65536
encode_utf8(s) ==
    IF s = <<>> THEN <<>>
    ELSE (IF s[1] < 128 THEN <<s[1]>>
          ELSE IF s[1] < 2048
          THEN <<192 + (s[1] \div 64), 128 + (s[1] % 64)>>
          ELSE <<224 + (s[1] \div 4096), 128 + ((s[1] \div 64) % 64),
                 128 + (s[1] % 64)>>)
         \o encode_utf8(Tail(s))

\* PAKManager._write_string
write_string(s) ==
    IF s = <<>> THEN Pack(0, 4)
    ELSE Pack(Len(encode_utf8(s)) + 1, 4) \o encode_utf8(s) \o <<NUL>>

\* the stand-in for hashlib.sha1(file_data).digest(): 20 bytes that depend
\* on the length and the first byte of the data
sha1(file_data) ==
    Repeat((31 * Len(file_data)
            + (IF file_data = <<>> THEN 0 ELSE file_data[1])) % 256, HASH_SIZE)

\* the location is below the folder
InFolder(loc) == loc # <<>> /\ loc[1] # ParDir

\* os.listdir(folder) is not empty
listdir_nonempty(fs) ==
    \E loc \in (DOMAIN fs.files) \cup fs.dirs : InFolder(loc)

\* shutil.rmtree(folder) followed by os.makedirs(folder): what lies outside
\* the folder stays
clear_folder(fs) ==
    [files |-> [loc \in {l \in DOMAIN fs.files : ~InFolder(l)} |-> fs.files[loc]],
     dirs  |-> {d \in fs.dirs : ~InFolder(d)}]

RECURSIVE join(_)
\* '/'.join(comps)
join(comps) ==
    IF Len(comps) = 1 THEN comps[1]
    ELSE comps[1] \o <<SLASH>> \o join(Tail(comps))

RECURSIVE walk_dirs(_, _)
RECURSIVE walk(_)
\* os.walk(source_dir) over the files at the locations locs, top down: the
\* files of a directory, then its subdirectories one after the other, each
\* listing taken in sorted order
walk(locs) ==
    sorted({l[1] : l \in {m \in locs : Len(m) = 1}})
    \o walk_dirs(locs, sorted({l[1] : l \in {m \in locs : Len(m) > 1}}))

\* the walks of the subdirectories names, each path with its directory
walk_dirs(locs, names) ==
    IF names = <<>> THEN <<>>
    ELSE Bind(walk({Tail(l) : l \in {m \in locs : Len(m) > 1 /\ m[1] = names[1]}}),
              LAMBDA sub :
                 [i \in 1..Len(sub) |-> names[1] \o <<SLASH>> \o sub[i]])
         \o walk_dirs(locs, Tail(names))

\* _create_pak_file, lines 247-254: the relative paths of the files below
\* source_dir
files_to_pack(fs) == walk({l \in DOMAIN fs.files : InFolder(l)})

\* the file of the folder at the relative path rel_path
file_at(fs, rel_path) == fs.files[resolve(split(rel_path, SLASH, <<>>), <<>>)]

RECURSIVE write_files(_, _, _)
\* _create_pak_file, lines 270-293: the data of the files one after the
\* other; each entry records its path, its offset and its size
write_files(fs, paths, current_offset) ==
    IF paths = <<>> THEN [data |-> <<>>, file_entries |-> <<>>]
    ELSE Bind(write_files(fs, Tail(paths),
                          current_offset + Len(file_at(fs, paths[1]))),
              LAMBDA rest :
                 [data |-> file_at(fs, paths[1]) \o rest.data,
                  file_entries |->
                      <<[filename |-> paths[1],
                         offset |-> current_offset,
                         size |-> Len(file_at(fs, paths[1])),
                         hash |-> sha1(file_at(fs, paths[1]))]>>
                      \o rest.file_entries])

\* _create_pak_file, lines 311-327: one index record; the timestamp and the
\* block count are written whatever the version and the method are
write_entry(entry, mtime) ==
    write_string(entry.filename)
    \o Pack(entry.offset, 8) \o Pack(entry.size, 8) \o Pack(entry.size, 8)
    \o Pack(COMPRESS_None, 4)
    \o Pack(mtime, 8)
    \o entry.hash
    \o Pack(0, 4)

RECURSIVE write_entries(_, _)
write_entries(file_entries, mtime) ==
    IF file_entries = <<>> THEN <<>>
    ELSE write_entry(file_entries[1], mtime)
         \o write_entries(Tail(file_entries), mtime)

\* _create_pak_file, lines 301-329: mount point, entry count, records
write_index(mount, file_entries, mtime) ==
    write_string(mount) \o Pack(Len(file_entries), 4)
    \o write_entries(file_entries, mtime)

\* _create_pak_file, lines 334-349: GUID, encrypted-index flag, magic,
\* version, index offset, index size
write_footer(version, index_offset_, index_size_) ==
    Repeat(0, 16) \o Pack(0, 1) \o Pack(PAK_MAGIC, 4) \o Pack(version, 4)
    \o Pack(index_offset_, 8) \o Pack(index_size_, 8)

\* _create_pak_file, lines 260-349, on the files written and their entries
write_pak(wf, mount, version, mtime) ==
    Bind(write_index(mount, wf.file_entries, mtime), LAMBDA index :
        Repeat(0, HEADER_SIZE) \o wf.data \o index
        \o write_footer(version, HEADER_SIZE + Len(wf.data), Len(index)))

\* PAKManager._create_pak_file(source_dir, output_pak): the bytes of the
\* archive written, for the manager's extractor self when it has one
create_pak_file(fs, has_extractor, self, mtime) ==
    write_pak(write_files(fs, files_to_pack(fs), HEADER_SIZE),
              IF has_extractor THEN self.mount_point ELSE DefaultMount,
              IF has_extractor THEN self.pak_version ELSE DEFAULT_VERSION,
              mtime)


(***************************************************************************)
(* PAKManager: the menu operations.  The extractor variables are the       *)
(* fields of manager.extractor, archive is the file it was created on, and *)
(* out_files is the folder of extracted files.                             *)
(***************************************************************************)
\* the .pak files the folder of original files may hold, by name: "g" with
\* two entries, "p" in the older layout with one, "l" with an encrypted
\* index and "c" with an entry count above the ceiling
PakNames == {<<103>>, <<112>>, <<108>>, <<99>>}

PakFile(name) ==
    IF name = <<103>>
    THEN Archive("newer", 0, 8, MountDir, 2, Select({1, 4}, 1))
    ELSE IF name = <<112>>
    THEN Archive("older", 0, 7, <<>>, 1, Select({3}, 1))
    ELSE IF name = <<108>>
    THEN Archive("newer", 1, 8, MountDir, 2, Select({1, 4}, 1))
    ELSE Archive("newer", 0, 7, MountDir, MAX_ENTRY_COUNT + 1,
                 Select({1, 3}, 1))

\* what detect_pak_file returns: None when the folder holds no .pak file,
\* else the one found or chosen
PakChoices == {None} \cup {Some(name) : name \in PakNames}

\* the folder of edited files, relative path to content: empty, or with a
\* new version of "a.t"
EditedDirs == {EmptyMap, Put(EmptyMap, <<97, DOT, 116>>, <<1, 2>>)}

\* int(os.path.getmtime(full_path)) of the files packed
Mtimes == {1000}

InitManager ==
    /\ archive = <<>>
    /\ entries = NewExtractor.entries
    /\ pak_version = NewExtractor.pak_version
    /\ index_offset = NewExtractor.index_offset
    /\ index_size = NewExtractor.index_size
    /\ mount_point = NewExtractor.mount_point
    /\ encrypted = NewExtractor.encrypted
    /\ last_call = NoCall
    /\ reads = <<>>
    /\ out_files = EmptyDir
    /\ calls = NoCalls
    /\ manager = NewManager

\* unpack_pak, lines 91-98: no .pak file was found
UnpackNothing ==
    /\ last_call' = [NoCall EXCEPT !.op = "unpack_pak"]
    /\ reads' = <<>>
    /\ UNCHANGED <<calls, manager, archive, entries, pak_version,
                   index_offset, index_size, mount_point, encrypted,
                   out_files>>

\* unpack_pak, lines 100-118: original_pak and extractor are set, then the
\* archive does not parse or is encrypted
UnpackFailed(name, r) ==
    /\ manager' = [manager EXCEPT !.original_pak = Some(name),
                                  !.extractor = TRUE,
                                  !.unpacked = "failed"]
    /\ archive' = PakFile(name)
    /\ SetSelf(r.self)
    /\ last_call' = [NoCall EXCEPT !.op = "unpack_pak", !.arg = name]
    /\ reads' = r.reads
    /\ UNCHANGED <<calls, out_files>>

\* unpack_pak, lines 100-143: the archive parsed; the folder of extracted
\* files is cleared when it is not empty and the answer is y, and all
\* entries are extracted into it
UnpackParsed(name, r, clear) ==
    LET fs == IF listdir_nonempty(out_files) /\ clear
              THEN clear_folder(out_files) ELSE out_files
        ea == extract_all(PakFile(name), r.self, fs)
    IN  /\ manager' = [manager EXCEPT !.original_pak = Some(name),
                                      !.extractor = TRUE,
                                      !.unpacked = "ok"]
        /\ archive' = PakFile(name)
        /\ SetSelf(r.self)
        /\ last_call' = [NoCall EXCEPT !.op = "unpack_pak", !.arg = name,
                                       !.ret = TRUE,
                                       !.attempts = ea.attempts,
                                       !.success_count = ea.success_count,
                                       !.fail_count = ea.fail_count]
        /\ reads' = r.reads \o ea.reads
        /\ out_files' = ea.fs
        /\ UNCHANGED calls

\* PAKManager.unpack_pak
UnpackPak ==
    \E choice \in PakChoices, clear \in BOOLEAN :
        IF choice.none THEN UnpackNothing
        ELSE LET r == parse(PakFile(choice.data), NewExtractor)
             IN  IF ~r.ret \/ r.self.encrypted
                 THEN UnpackFailed(choice.data, r)
                 ELSE UnpackParsed(choice.data, r, clear)

\* repack_pak, lines 194-206: one edited file copied over the extracted one
\* or added to the folder
copy_edited(fs, rel_path, bytes) ==
    Bind(makedirs(fs, rel_path), LAMBDA md :
        IF md.exc THEN md ELSE write_file(md.fs, rel_path, bytes))

RECURSIVE copy_all(_, _, _)
\* repack_pak, lines 194-206: the loop over the edited files
copy_all(fs, edited, paths) ==
    IF paths = <<>> THEN [exc |-> FALSE, fs |-> fs]
    ELSE Bind(copy_edited(fs, paths[1], edited[paths[1]]), LAMBDA c :
             IF c.exc THEN c ELSE copy_all(c.fs, edited, Tail(paths)))

\* repack_pak, lines 158-171: original_pak or extractor is not set, or the
\* folder of extracted files is empty: 'Please unpack a PAK file first'
repack_refused ==
    \/ manager.original_pak.none
    \/ ~manager.extractor
    \/ ~listdir_nonempty(out_files)

\* PAKManager.repack_pak: ret tells that _create_pak_file wrote the archive
RepackPak ==
    \E edited \in EditedDirs, mtime \in Mtimes :
        IF repack_refused
        THEN /\ last_call' = [NoCall EXCEPT !.op = "repack_pak"]
             /\ reads' = <<>>
             /\ UNCHANGED <<calls, manager, archive, entries, pak_version,
                            index_offset, index_size, mount_point,
                            encrypted, out_files>>
        ELSE LET c == copy_all(out_files, edited, sorted(DOMAIN edited))
             IN  /\ out_files' = c.fs
                 /\ manager' =
                        IF c.exc THEN manager
                        ELSE [manager EXCEPT !.repacked =
                                 Some(create_pak_file(c.fs, manager.extractor,
                                                      self_now, mtime))]
                 /\ last_call' = [NoCall EXCEPT !.op = "repack_pak",
                                                !.ret = ~c.exc,
                                                !.raised = c.exc]
                 /\ reads' = <<>>
                 /\ UNCHANGED <<calls, archive, entries, pak_version,
                                index_offset, index_size, mount_point,
                                encrypted>>

\* PAKManager.clear_output: on the answer y the folders of extracted and of
\* repacked files are emptied and original_pak and extractor are reset
ClearOutput ==
    \E response \in BOOLEAN :
        IF response
        THEN /\ out_files' = clear_folder(out_files)
             /\ manager' = NewManager
             /\ archive' = <<>>
             /\ SetSelf(NewExtractor)
             /\ last_call' = [NoCall EXCEPT !.op = "clear_output",
                                            !.ret = TRUE]
             /\ reads' = <<>>
             /\ UNCHANGED calls
        ELSE /\ last_call' = [NoCall EXCEPT !.op = "clear_output"]
             /\ reads' = <<>>
             /\ UNCHANGED <<calls, manager, archive, entries, pak_version,
                            index_offset, index_size, mount_point,
                            encrypted, out_files>>

\* PAKManager.run: the menu
NextManager == UnpackPak \/ ClearOutput \/ RepackPak

SpecManager == InitManager /\ [][NextManager]_vars

\* the last operation was a repack_pak that wrote an archive
Repacked == last_call.op = "repack_pak" /\ last_call.ret

\* the archive written, read by a new extractor
RepackedParse == parse(manager.repacked.data, NewExtractor)

\* C25: the archive _create_pak_file writes from the folder of extracted
\* files is accepted by parse(), the entries are the relative paths of the
\* files packed, and extract_file_data returns for each the bytes of its
\* file.
C25_WriterReaderRoundTrip ==
    Repacked =>
        /\ RepackedParse.ret
        /\ DOMAIN RepackedParse.self.entries =
               {files_to_pack(out_files)[i] :
                    i \in 1..Len(files_to_pack(out_files))}
        /\ \A name \in DOMAIN RepackedParse.self.entries :
               extract_file_data(manager.repacked.data,
                                 RepackedParse.self.entries[name]).ret
               = Some(file_at(out_files, name))

\* C26: repack_pak writes an archive only when the most recent unpack_pak
\* since start-up or since the last confirmed clear_output parsed its
\* archive and found it unencrypted; otherwise it refuses.
C26_RepackAfterUnpack ==
    Repacked => manager.unpacked = "ok"

====
